---- MODULE Spec2Model ----
(***************************************************************************)
(* HEARTH hunt catalog (app.js) and hunt assistant (chat-widget.js).       *)
(*                                                                         *)
(* A JavaScript string is modelled as the sequence of its characters, each *)
(* a one-character string, so that toLowerCase, includes, split, trim,     *)
(* charAt, substring and parseInt are computed character by character.     *)
(* An absent field (undefined) is the one-element sequence <<"undefined">>,*)
(* which no string equals because "undefined" is not a single character.   *)
(***************************************************************************)
EXTENDS Integers, Sequences, FiniteSets, TLC

VARIABLES
    HUNTS_DATA,       \* the global array of hunt records (hunts-data.js)
    searchInput,      \* app: value of the search box
    categoryFilter,   \* app: value of the category select
    tacticFilter,     \* app: value of the tactic select
    tagFilter,        \* app: value of the tag select
    sortHuntsSelect,  \* app: value of the sort select
    tacticOptions,    \* app: option values of the tactic select
    tagOptions,       \* app: option values of the tag select
    searchCache,      \* app: this.searchCache
    filteredHunts,    \* app: this.filteredHunts
    huntsGrid,        \* app: the cards rendered in the grid, in order
    huntCount,        \* app: N of the label 'Showing N hunts'
    debouncePending,  \* app: the debounce timer is set and has not fired yet
    chatInput,        \* chat: value of the chat input
    sendButtonDisabled, \* chat: the Send button is disabled
    isOpen,           \* chat: this.isOpen
    messages,         \* chat: this.messages
    messagesContainer, \* chat: the children of the messages container, in order
    currentTypingIndicator, \* chat: the typing indicator element (0 is null)
    timers,           \* chat: the messages whose processMessage timer is pending
    handled,          \* chat: the handler processMessage called, per processed message
    loadedSnapshot,   \* the records of HUNTS_DATA at page load
    sortEngine,       \* the JavaScript engine's Array.prototype.sort for short arrays
    sortArg,          \* sort harness: the array handed to sortHunts
    sortCalls,        \* sort harness: the arrays sortHunts returned, per direction
    matchArg,         \* matcher harness: the record and the selection handed to matchesTactic
    matchCall,        \* matcher harness: what matchesTactic returned
    uniqueCall,       \* a later call of getUniqueValues: the field and what it returned
    searchArg,        \* search harness: the query handed to searchHunts
    searchCall,       \* search harness: what searchHunts returned, or that it threw
    modalBody,        \* modal: what the innerHTML of #modal-body shows, and the request that wrote it
    modalDisplay,     \* modal: modal.style.display
    notebookTimers,   \* modal: the generateNotebook calls waiting for their delay, oldest first
    modalRequests,    \* modal: the requests made so far (details, notebooks) and their outcome
    dataDefined,      \* page load: hunts-data.js has run, HUNTS_DATA is defined
    listenersRun,     \* page load: the components whose DOMContentLoaded listener has run
    chatRetry,        \* page load: the 1000 ms timer of the chat widget's listener is waiting
    bootLog,          \* page load: constructions, uncaught errors and console warnings, in order
    notebookArg,      \* notebook harness: the record a notebook is generated for, and the copy of the script
    pendingHuntData,  \* notebook harness: const huntData of generateNotebook, once it is built
    notebookCall,     \* notebook harness: the document generateNotebookContent returned
    lastClick,        \* chat: the hunt result clicked last, and the page as its listener left it
    resizable,        \* resizable chat: the widget's size fields, styles and size buttons
    widgetEvents      \* resizable chat: the clicks on the widget's buttons so far, in order

appVars == <<searchInput, categoryFilter, tacticFilter, tagFilter, sortHuntsSelect,
             tacticOptions, tagOptions, searchCache, filteredHunts, huntsGrid, huntCount,
             debouncePending>>
chatVars == <<chatInput, sendButtonDisabled, isOpen, messages, messagesContainer,
              currentTypingIndicator, timers, handled>>
sortVars == <<sortEngine, sortArg, sortCalls>>
matchVars == <<matchArg, matchCall>>
uniqueVars == <<uniqueCall>>
searchVars == <<searchArg, searchCall>>
modalVars == <<modalBody, modalDisplay, notebookTimers, modalRequests>>
bootVars == <<dataDefined, listenersRun, chatRetry, bootLog>>
notebookVars == <<notebookArg, pendingHuntData, notebookCall>>
clickVars == <<lastClick>>
resizeVars == <<resizable, widgetEvents>>
otherVars == <<searchVars, modalVars, bootVars, notebookVars, clickVars, resizeVars>>
vars == <<HUNTS_DATA, loadedSnapshot, appVars, chatVars, sortVars, matchVars, uniqueVars,
          otherVars>>

(***************************************************************************)
(* Bounds of the model                                                     *)
(***************************************************************************)
MaxSortLen == 4
MaxHunts == 2
MaxSends == 1
MaxTurns == 3
MaxRequests == 3
MaxClicks == 5

(***************************************************************************)
(* JavaScript values                                                       *)
(***************************************************************************)
\* The characters of a string literal
Chars(str) == [i \in 1..Len(str) |-> SubSeq(str, i, i)]

undefined == <<"undefined">>
undefinedList == <<undefined>>
EmptyString == <<>>

UpperCase == <<"A","B","C","D","E","F","G","H","I","J","K","L","M","N","O","P","Q","R","S","T",
    "U","V","W","X","Y","Z">>
LowerCase == <<"a","b","c","d","e","f","g","h","i","j","k","l","m","n","o","p","q","r","s","t",
    "u","v","w","x","y","z">>
Digits == <<"0","1","2","3","4","5","6","7","8","9">>

RECURSIVE IndexFrom(_, _, _)
IndexFrom(seq, c, i) ==
    IF i > Len(seq) THEN 0 ELSE IF seq[i] = c THEN i ELSE IndexFrom(seq, c, i + 1)
\* 1-based position of the first c in seq, 0 when c does not occur
IndexOf(seq, c) == IndexFrom(seq, c, 1)

\* A JavaScript number that may be NaN
Num(n) == [nan |-> FALSE, n |-> n]
NaN == [nan |-> TRUE, n |-> 0]
Minus(a, b) == IF a.nan \/ b.nan THEN NaN ELSE Num(a.n - b.n)

\* String.prototype.toLowerCase over the letters A-Z
LowerOfUpper == [c \in {UpperCase[i] : i \in 1..26} |-> LowerCase[IndexOf(UpperCase, c)]]
toLowerCaseChar(c) == IF c \in DOMAIN LowerOfUpper THEN LowerOfUpper[c] ELSE c
toLowerCase(s) == SubSeq([i \in 1..Len(s) |-> toLowerCaseChar(s[i])], 1, Len(s))

\* String.prototype.includes
includes(s, sub) ==
    \E i \in 0..(Len(s) - Len(sub)) : \A k \in 1..Len(sub) : s[i + k] = sub[k]

\* String.prototype.charAt: the empty string when pos is out of range
charAt(s, pos) == IF pos < Len(s) THEN <<s[pos + 1]>> ELSE EmptyString

\* String.prototype.substring(start)
substring(s, start) == IF start >= Len(s) THEN EmptyString ELSE SubSeq(s, start + 1, Len(s))

RECURSIVE TrimStart(_)
TrimStart(s) == IF s # <<>> /\ Head(s) = " " THEN TrimStart(Tail(s)) ELSE s
RECURSIVE TrimEnd(_)
TrimEnd(s) == IF s # <<>> /\ s[Len(s)] = " " THEN TrimEnd(SubSeq(s, 1, Len(s) - 1)) ELSE s
\* String.prototype.trim (the whitespace of the modelled alphabet is the space)
trim(s) == TrimEnd(TrimStart(s))

RECURSIVE ParseDigits(_, _, _)
ParseDigits(s, i, acc) ==
    IF i <= Len(s) /\ IndexOf(Digits, s[i]) > 0
    THEN ParseDigits(s, i + 1, acc * 10 + IndexOf(Digits, s[i]) - 1)
    ELSE acc
\* the longest prefix of decimal digits as a number; NaN when it is empty
ParseUnsigned(body) ==
    IF body = <<>> \/ IndexOf(Digits, body[1]) = 0 THEN NaN ELSE Num(ParseDigits(body, 1, 0))
\* an optional sign, then the digits
ParseSigned(t) ==
    IF t = <<>> THEN NaN
    ELSE IF Head(t) = "-" THEN Minus(Num(0), ParseUnsigned(Tail(t)))
    ELSE IF Head(t) = "+" THEN ParseUnsigned(Tail(t))
    ELSE ParseUnsigned(t)
\* parseInt(s, 10): leading whitespace, an optional sign, then the longest
\* prefix of decimal digits; NaN when that prefix is empty
parseInt(s) == ParseSigned(TrimStart(s))

\* Collation order of the characters an id may start with: digits before
\* letters, letters alphabetically, lower case before upper case
CollationOrder == <<"0","1","2","3","4","5","6","7","8","9",
    "a","A","b","B","c","C","d","D","e","E","f","F","g","G","h","H","i","I","j","J","k","K",
    "l","L","m","M","n","N","o","O","p","P","q","Q","r","R","s","S","t","T","u","U","v","V",
    "w","W","x","X","y","Y","z","Z">>
\* the empty string collates before every character
CollationRank(a) == IF a = <<>> THEN 0 ELSE IndexOf(CollationOrder, a[1])
\* String.prototype.localeCompare on strings of at most one character
localeCompare(a, b) ==
    IF CollationRank(a) < CollationRank(b) THEN -1
    ELSE IF CollationRank(a) > CollationRank(b) THEN 1 ELSE 0


\* UTF-16 code unit order of the modelled alphabet
AsciiOrder == <<" ",",","-","0","1","2","3","4","5","6","7","8","9","A","B","C","D","E","F","G",
    "H","I","J","K","L","M","N","O","P","Q","R","S","T","U","V","W","X","Y","Z","_","a","b","c",
    "d","e","f","g","h","i","j","k","l","m","n","o","p","q","r","s","t","u","v","w","x","y",
    "z">>
RECURSIVE CompareCodeUnits(_, _)
\* the order of the default Array.prototype.sort: -1, 0 or 1
CompareCodeUnits(a, b) ==
    IF a = <<>> THEN (IF b = <<>> THEN 0 ELSE -1)
    ELSE IF b = <<>> THEN 1
    ELSE IF Head(a) = Head(b) THEN CompareCodeUnits(Tail(a), Tail(b))
    ELSE IF IndexOf(AsciiOrder, Head(a)) < IndexOf(AsciiOrder, Head(b)) THEN -1 ELSE 1

RECURSIVE split(_, _)
\* String.prototype.split on a one-character separator
split(s, sep) ==
    LET i == IndexOf(s, sep)
    IN  IF i = 0 THEN <<s>> ELSE <<SubSeq(s, 1, i - 1)>> \o split(SubSeq(s, i + 1, Len(s)), sep)

\* what join makes of an element: undefined contributes the empty string
JoinText(e) == IF e = undefined THEN <<>> ELSE e
RECURSIVE join(_, _)
\* Array.prototype.join
join(arr, sep) ==
    IF arr = <<>> THEN <<>>
    ELSE IF Len(arr) = 1 THEN JoinText(arr[1])
    ELSE JoinText(arr[1]) \o sep \o join(Tail(arr), sep)

\* Array.prototype.map and Array.prototype.filter
ArrayMap(arr, f(_)) == [i \in 1..Len(arr) |-> f(arr[i])]
ArrayFilter(arr, keep(_)) == SelectSeq(arr, keep)
\* Array.prototype.includes
ArrayIncludes(arr, x) == \E i \in 1..Len(arr) : arr[i] = x

\* Truth value of a string or of an absent field
Truthy(v) == v # undefined /\ v # undefinedList /\ v # <<>>

(***************************************************************************)
(* Hunt records                                                            *)
(***************************************************************************)
Hunt(id, category, title, tactic, notes, tags, submitter) ==
    [id |-> id, category |-> category, title |-> title, tactic |-> tactic,
     notes |-> notes, tags |-> tags, submitter |-> submitter]

(***************************************************************************)
(* sortHunts (app.js 269-292)                                              *)
(***************************************************************************)
\* Mutant: the letter level is compared ascending whatever the direction
compareByLetterThenNumber_letterLevelAscending(letterA, letterB, numA, numB, direction) ==
    IF letterA # letterB
    THEN Num(localeCompare(letterA, letterB))
    ELSE IF direction = "asc" THEN Minus(numA, numB) ELSE Minus(numB, numA)

\* The two returns of the comparator: the letter level, then the number level
compareByLetterThenNumber(letterA, letterB, numA, numB, direction) ==
    IF letterA # letterB
    THEN IF direction = "asc" THEN Num(localeCompare(letterA, letterB))
                              ELSE Num(localeCompare(letterB, letterA))
    ELSE IF direction = "asc" THEN Minus(numA, numB) ELSE Minus(numB, numA)

\* The comparator handed to sort: letterA, letterB, numA and numB of the ids
compareHunts(a, b, direction) ==
    compareByLetterThenNumber(charAt(a.id, 0), charAt(b.id, 0),
                              parseInt(substring(a.id, 1)), parseInt(substring(b.id, 1)),
                              direction)

\* What Array.prototype.sort makes of a comparator's value: NaN counts as +0
SortOrder(v) == IF v.nan THEN 0 ELSE v.n

\* aScore and bScore of the comparator of searchHunts (chat-widget.js)
titleScore(hunt, lowerQuery) == IF includes(toLowerCase(hunt.title), lowerQuery) THEN 2 ELSE 1

\* The comparator cmp applied to a and b: that of sortHunts, that of
\* searchHunts, that of generateStats, or none (the default order)
Compare(cmp, a, b) ==
    SortOrder(IF cmp.fn = "id" THEN compareHunts(a, b, cmp.direction)
              ELSE IF cmp.fn = "score"
                   THEN Num(titleScore(b, cmp.lowerQuery) - titleScore(a, cmp.lowerQuery))
              ELSE IF cmp.fn = "count" THEN Num(b.count - a.count)
              ELSE Num(CompareCodeUnits(a, b)))

\* Array.prototype.sort for arrays shorter than the engine's minimal merge
\* run.  With a consistent comparator the result is the stable sort.  With
\* an inconsistent one (NaN) the order is implementation-defined, and the
\* engines differ: one counts a first run (a strictly descending one is
\* reversed) and inserts the rest by binary insertion (V8 11, node 20), one
\* inserts every element from the second on by binary insertion (V8 14).
SortEngines == {"run counting", "binary insertion"}

ReverseRange(work, from, to) ==
    [i \in 1..Len(work) |->
        IF from < i /\ i <= to THEN work[from + to + 1 - i] ELSE work[i]]

RECURSIVE RunLength(_, _, _, _)
\* a descending run ends at the first order >= 0, an ascending one at the
\* first order < 0
RunLength(work, cmp, isDescending, idx) ==
    IF idx < Len(work)
    THEN IF isDescending = (Compare(cmp, work[idx + 1], work[idx]) >= 0)
         THEN idx
         ELSE RunLength(work, cmp, isDescending, idx + 1)
    ELSE idx

MakeRun(work, isDescending, runLength) ==
    [work |-> IF isDescending THEN ReverseRange(work, 0, runLength) ELSE work,
     runLength |-> runLength]

CountRun(work, cmp, isDescending) ==
    MakeRun(work, isDescending, RunLength(work, cmp, isDescending, 2))

CountAndMakeRun(work, cmp) == CountRun(work, cmp, Compare(cmp, work[2], work[1]) < 0)

RECURSIVE BinarySearch(_, _, _, _, _)
BinarySearch(work, cmp, pivot, left, right) ==
    IF left < right
    THEN IF Compare(cmp, pivot, work[left + ((right - left) \div 2) + 1]) < 0
         THEN BinarySearch(work, cmp, pivot, left, left + ((right - left) \div 2))
         ELSE BinarySearch(work, cmp, pivot, left + ((right - left) \div 2) + 1, right)
    ELSE left

\* work[start] moved down to position left, the elements between shifted up
InsertPivot(work, pivot, left, start) ==
    [i \in 1..Len(work) |->
        IF i - 1 < left THEN work[i]
        ELSE IF i - 1 = left THEN pivot
        ELSE IF i - 1 <= start THEN work[i - 1]
        ELSE work[i]]

RECURSIVE BinaryInsertionSort(_, _, _, _)
BinaryInsertionSort(work, cmp, start, high) ==
    IF start < high
    THEN BinaryInsertionSort(
             InsertPivot(work, work[start + 1],
                         BinarySearch(work, cmp, work[start + 1], 0, start), start),
             cmp, start + 1, high)
    ELSE work

InsertAfterRun(run, cmp) == BinaryInsertionSort(run.work, cmp, run.runLength, Len(run.work))

ArraySort(arr, cmp) ==
    IF Len(arr) < 2 THEN arr
    ELSE IF sortEngine = "binary insertion" THEN BinaryInsertionSort(arr, cmp, 1, Len(arr))
    ELSE InsertAfterRun(CountAndMakeRun(arr, cmp), cmp)

\* sortValue.split('-')[1] for the select's values 'id-asc' and 'id-desc'
direction(sortValue) == IF sortValue = "id-asc" THEN "asc" ELSE "desc"

\* sortHunts returns a sorted copy; the array it is given is left as it was
sortHunts(hunts, sortValue) ==
    ArraySort(hunts, [fn |-> "id", direction |-> direction(sortValue)])

(***************************************************************************)
(* The records a snapshot is drawn from (shaped like hunts-data.js)        *)
(***************************************************************************)
H009 == Hunt(Chars("H009"), "Flames", Chars("Odd DLL finder"), Chars("Defense Evasion"),
             Chars("Signed"), <<Chars("dll")>>, Chars("Ann"))
B002 == Hunt(Chars("B002"), "Embers", Chars("RMM persistence"), Chars("Persistence, Execution"),
             undefined, <<Chars("baseline"), Chars("findings")>>, Chars("Bob"))
M001 == Hunt(Chars("M001"), "Alchemy", Chars("Beacons"),
             Chars("Impact,Remote Execution "),
             Chars("c2 jitter"), <<>>, Chars("Ann"))
H010 == Hunt(Chars("H010"), "Flames", Chars("Logins"), undefined,
             Chars("Persistence"), undefinedList, undefined)
HuntPool == {H009, B002, M001, H010}

\* Arrays of pairwise different elements of S, of length at most n
InjectiveSeqs(S, n) ==
    UNION { { s \in [1..k -> S] : \A i, j \in 1..k : i # j => s[i] # s[j] } : k \in 0..n }

Snapshots == InjectiveSeqs(HuntPool, MaxHunts)

(***************************************************************************)
(* HearthApp (app.js)                                                      *)
(***************************************************************************)
\* The value of a JavaScript expression used as a condition
ToBoolean(v) == v = "true"

\* [hunt.id, hunt.title, hunt.tactic, hunt.notes, (hunt.tags || []).join(' '),
\*  (hunt.submitter && hunt.submitter.name) || ''].join(' ').toLowerCase()
\* (the submitter field of a record holds the submitter's name)
searchableContent(hunt) ==
    toLowerCase(join(<<hunt.id, hunt.title, hunt.tactic, hunt.notes,
                       join(IF hunt.tags = undefinedList THEN <<>> ELSE hunt.tags, <<" ">>),
                       IF Truthy(hunt.submitter) THEN hunt.submitter ELSE <<>> >>,
                     <<" ">>))

\* Mutant: the submitter name is left out of the searchable content
matchesSearchCriteria_noSubmitter(hunt, searchTerm) ==
    IF searchTerm = <<>> THEN "true"
    ELSE IF includes(toLowerCase(join(<<hunt.id, hunt.title, hunt.tactic, hunt.notes,
                join(IF hunt.tags = undefinedList THEN <<>> ELSE hunt.tags, <<" ">>)>>,
                <<" ">>)), searchTerm)
    THEN "true" ELSE "false"

matchesSearchCriteria(hunt, searchTerm) ==
    IF searchTerm = <<>> THEN "true"
    ELSE IF includes(searchableContent(hunt), searchTerm) THEN "true" ELSE "false"

\* Mutant: the comparison with the selected category is forgotten
matchesCategory_anyCategory(hunt, category) ==
    IF category = "" THEN "true" ELSE IF hunt.category # "" THEN "true" ELSE "false"

matchesCategory(hunt, category) ==
    IF category = "" THEN "true" ELSE IF hunt.category = category THEN "true" ELSE "false"

\* Mutant: the tactic field is searched for the selection as a substring
matchesTactic_substring(hunt, tactic) ==
    IF tactic = <<>> THEN "true"
    ELSE IF hunt.tactic = undefined THEN "undefined"
    ELSE IF hunt.tactic = <<>> THEN "''"
    ELSE IF includes(hunt.tactic, tactic) THEN "true" ELSE "false"

\* !tactic || (hunt.tactic && <split, trim, includes>): the value is that of
\* hunt.tactic when the field is absent or empty
matchesTactic(hunt, tactic) ==
    IF tactic = <<>> THEN "true"
    ELSE IF hunt.tactic = undefined THEN "undefined"
    ELSE IF hunt.tactic = <<>> THEN "''"
    ELSE IF ArrayIncludes(ArrayMap(split(hunt.tactic, ","), trim), tactic) THEN "true"
    ELSE "false"

matchesTag(hunt, tag) ==
    IF tag = <<>> THEN "true"
    ELSE IF hunt.tags = undefinedList THEN "undefined"
    ELSE IF ArrayIncludes(hunt.tags, tag) THEN "true" ELSE "false"

\* Mutant: the tag criterion is left out of the conjunction
filterCallback_noTag(hunt, searchTerm, selectedCategory, selectedTactic, selectedTag) ==
    /\ ToBoolean(matchesSearchCriteria(hunt, searchTerm))
    /\ ToBoolean(matchesCategory(hunt, selectedCategory))
    /\ ToBoolean(matchesTactic(hunt, selectedTactic))

\* The callback of this.huntsData.filter in filterAndSortHunts
filterCallback(hunt, searchTerm, selectedCategory, selectedTactic, selectedTag) ==
    /\ ToBoolean(matchesSearchCriteria(hunt, searchTerm))
    /\ ToBoolean(matchesCategory(hunt, selectedCategory))
    /\ ToBoolean(matchesTactic(hunt, selectedTactic))
    /\ ToBoolean(matchesTag(hunt, selectedTag))

\* renderHunts(sortedHunts), with what filterAndSortHunts leaves behind: the
\* snapshot array, this.filteredHunts, the cards of the grid and the count
renderHunts(data, filtered, sortedHunts) ==
    [huntsData |-> data,
     filteredHunts |-> filtered,
     huntsGrid |-> sortedHunts,
     huntCount |-> Len(sortedHunts)]

\* Mutant: the snapshot array is sorted where it stands and then filtered
sortAndRender_inPlace(data, filtered, sortValue) ==
    renderHunts(sortHunts(data, sortValue), filtered, sortHunts(filtered, sortValue))

\* const sortedHunts = this.sortHunts(this.filteredHunts); this.renderHunts(sortedHunts):
\* sortHunts sorts a copy, so neither array changes
sortAndRender(data, filtered, sortValue) ==
    renderHunts(data, filtered, sortHunts(filtered, sortValue))

\* filterAndSortHunts with the controls at the given values; filter builds a
\* new array and leaves the snapshot as it was
filterAndSortHunts(data, search, category, tactic, tag, sortValue) ==
    sortAndRender(data,
                  ArrayFilter(data, LAMBDA hunt :
                      filterCallback(hunt, toLowerCase(search), category, tactic, tag)),
                  sortValue)

RECURSIVE SetOrder(_, _)
\* The values a Set holds after the given values were added to it in order
SetOrder(seen, values) ==
    IF values = <<>> THEN seen
    ELSE IF ArrayIncludes(seen, Head(values)) THEN SetOrder(seen, Tail(values))
    ELSE SetOrder(Append(seen, Head(values)), Tail(values))

RECURSIVE Flatten(_)
Flatten(lists) == IF lists = <<>> THEN <<>> ELSE Head(lists) \o Flatten(Tail(lists))

\* The values getUniqueValues adds to its Set, hunt by hunt
ValuesOfField(hunt, fieldName) ==
    IF fieldName = "tags"
    THEN (IF hunt.tags = undefinedList THEN <<>> ELSE hunt.tags)
    ELSE IF Truthy(hunt.tactic)
         THEN ArrayFilter(ArrayMap(split(hunt.tactic, ","), trim), Truthy)
         ELSE <<>>

\* Mutant: the values are returned in the order the Set holds them, unsorted
computeUniqueValues_unsorted(data, fieldName) ==
    ArrayFilter(SetOrder(<<>>, Flatten([i \in 1..Len(data) |->
                                           ValuesOfField(data[i], fieldName)])),
                Truthy)

\* getUniqueValues for 'tactic' and 'tags' when the cache has no entry
computeUniqueValues(data, fieldName) ==
    ArraySort(ArrayFilter(SetOrder(<<>>, Flatten([i \in 1..Len(data) |->
                                                     ValuesOfField(data[i], fieldName)])),
                          Truthy),
              [fn |-> "default"])

NoEntry == [has |-> FALSE, value |-> <<>>]
CacheKey(fieldName) == "unique_" \o fieldName

\* this.searchCache.set(cacheKey, result); return result
CacheSet(cache, cacheKey, result) ==
    [result |-> result,
     cache |-> [cache EXCEPT ![cacheKey] = [has |-> TRUE, value |-> result]]]

\* getUniqueValues: the result and the cache after the call
getUniqueValues(cache, data, fieldName) ==
    IF cache[CacheKey(fieldName)].has
    THEN [result |-> cache[CacheKey(fieldName)].value, cache |-> cache]
    ELSE CacheSet(cache, CacheKey(fieldName), computeUniqueValues(data, fieldName))

\* What the user can put into the search box
SearchInputs == {<<>>, Chars("PERSIST"), Chars("h009 odd"), Chars("ann"), Chars("undef")}

CategoryValues == {"", "Flames", "Embers", "Alchemy"}
SortValues == {"id-asc", "id-desc"}

\* populateDropdown for the tactic and the tag select
PopulateDropdowns(tactics, tags) ==
    /\ tacticOptions = tactics.result
    /\ tagOptions = tags.result
    /\ searchCache = tags.cache

\* getUniqueValues('tags') follows getUniqueValues('tactic') on the same cache
PopulateAfterTactics(tactics) ==
    PopulateDropdowns(tactics, getUniqueValues(tactics.cache, HUNTS_DATA, "tags"))

initializeDropdowns ==
    PopulateAfterTactics(getUniqueValues([k \in {"unique_tactic", "unique_tags"} |-> NoEntry],
                                         HUNTS_DATA, "tactic"))

\* The first rendering of the grid
Rendered(r) ==
    /\ filteredHunts = r.filteredHunts
    /\ huntsGrid = r.huntsGrid
    /\ huntCount = r.huntCount

\* The constructor: initializeDropdowns, then the first filterAndSortHunts
AppInit ==
    /\ searchInput = <<>>
    /\ categoryFilter = ""
    /\ tacticFilter = <<>>
    /\ tagFilter = <<>>
    /\ sortHuntsSelect \in SortValues
    /\ initializeDropdowns
    /\ Rendered(filterAndSortHunts(HUNTS_DATA, searchInput, categoryFilter, tacticFilter,
                                   tagFilter, sortHuntsSelect))
    /\ debouncePending = FALSE

\* What a call of filterAndSortHunts leaves behind
Render(r) ==
    /\ HUNTS_DATA' = r.huntsData
    /\ filteredHunts' = r.filteredHunts
    /\ huntsGrid' = r.huntsGrid
    /\ huntCount' = r.huntCount

\* this.filterAndSortHunts() reading the controls at the given values
Refresh(search, category, tactic, tag, sortValue) ==
    Render(filterAndSortHunts(HUNTS_DATA, search, category, tactic, tag, sortValue))

\* 'input' on the search box: the pending timer is replaced by a new one
SearchInput(value) ==
    /\ searchInput' = value
    /\ debouncePending' = TRUE
    /\ UNCHANGED <<HUNTS_DATA, categoryFilter, tacticFilter, tagFilter, sortHuntsSelect,
                   tacticOptions, tagOptions, searchCache, filteredHunts, huntsGrid, huntCount>>

\* the debounce timer fires
DebounceFire ==
    /\ debouncePending
    /\ debouncePending' = FALSE
    /\ Refresh(searchInput, categoryFilter, tacticFilter, tagFilter, sortHuntsSelect)
    /\ UNCHANGED <<searchInput, categoryFilter, tacticFilter, tagFilter, sortHuntsSelect,
                   tacticOptions, tagOptions, searchCache>>

\* Mutant: the clear button empties the search box and leaves the grid
ClearSearch_gridKept ==
    /\ searchInput' = <<>>
    /\ UNCHANGED <<HUNTS_DATA, filteredHunts, huntsGrid, huntCount>>
    /\ UNCHANGED <<categoryFilter, tacticFilter, tagFilter, sortHuntsSelect,
                   tacticOptions, tagOptions, searchCache, debouncePending>>

\* click on the clear button
ClearSearch ==
    /\ searchInput' = <<>>
    /\ Refresh(<<>>, categoryFilter, tacticFilter, tagFilter, sortHuntsSelect)
    /\ UNCHANGED <<categoryFilter, tacticFilter, tagFilter, sortHuntsSelect,
                   tacticOptions, tagOptions, searchCache, debouncePending>>

CategoryChange(value) ==
    /\ value # categoryFilter
    /\ categoryFilter' = value
    /\ Refresh(searchInput, value, tacticFilter, tagFilter, sortHuntsSelect)
    /\ UNCHANGED <<searchInput, tacticFilter, tagFilter, sortHuntsSelect,
                   tacticOptions, tagOptions, searchCache, debouncePending>>

TacticChange(value) ==
    /\ value # tacticFilter
    /\ tacticFilter' = value
    /\ Refresh(searchInput, categoryFilter, value, tagFilter, sortHuntsSelect)
    /\ UNCHANGED <<searchInput, categoryFilter, tagFilter, sortHuntsSelect,
                   tacticOptions, tagOptions, searchCache, debouncePending>>

TagChange(value) ==
    /\ value # tagFilter
    /\ tagFilter' = value
    /\ Refresh(searchInput, categoryFilter, tacticFilter, value, sortHuntsSelect)
    /\ UNCHANGED <<searchInput, categoryFilter, tacticFilter, sortHuntsSelect,
                   tacticOptions, tagOptions, searchCache, debouncePending>>

SortChange(value) ==
    /\ value # sortHuntsSelect
    /\ sortHuntsSelect' = value
    /\ Refresh(searchInput, categoryFilter, tacticFilter, tagFilter, value)
    /\ UNCHANGED <<searchInput, categoryFilter, tacticFilter, tagFilter,
                   tacticOptions, tagOptions, searchCache, debouncePending>>

(***************************************************************************)
(* HearthChatWidget (chat-widget.js)                                       *)
(***************************************************************************)
\* keywords.some(keyword => message.includes(keyword))
IncludesAny(message, keywords) == \E i \in 1..Len(keywords) : includes(message, keywords[i])

searchKeywords == <<Chars("show me"), Chars("find"), Chars("search"), Chars("look for"),
    Chars("hunts for"), Chars("related to")>>
tacticKeywords == <<Chars("tactic"), Chars("persistence"), Chars("execution"),
    Chars("lateral movement"), Chars("exfiltration"), Chars("command and control")>>
peakKeywords == <<Chars("peak"), Chars("flames"), Chars("embers"), Chars("alchemy"),
    Chars("framework"), Chars("category"), Chars("when to use")>>
statsKeywords == <<Chars("how many"), Chars("count"), Chars("stats"), Chars("statistics"),
    Chars("total")>>
helpKeywords == <<Chars("help"), Chars("what can you do"), Chars("commands"), Chars("how to")>>

isSearchQuery(message) == IncludesAny(message, searchKeywords)
isTacticQuery(message) == IncludesAny(message, tacticKeywords)
isPeakFrameworkQuery(message) == IncludesAny(message, peakKeywords)
isStatsQuery(message) == IncludesAny(message, statsKeywords)
isHelpQuery(message) == IncludesAny(message, helpKeywords)

\* Mutant: the tactic keywords are tested before the search keywords
intentHandler_tacticFirst(lowerMessage) ==
    IF isTacticQuery(lowerMessage) THEN "handleTacticExploration"
    ELSE IF isSearchQuery(lowerMessage) THEN "handleHuntSearch"
    ELSE IF isPeakFrameworkQuery(lowerMessage) THEN "handlePeakFrameworkGuidance"
    ELSE IF isStatsQuery(lowerMessage) THEN "handleStatsQuery"
    ELSE IF isHelpQuery(lowerMessage) THEN "handleHelpQuery"
    ELSE "handleGeneralQuery"

\* The if / else if chain of processMessage: the handler it calls
intentHandler(lowerMessage) ==
    IF isSearchQuery(lowerMessage) THEN "handleHuntSearch"
    ELSE IF isTacticQuery(lowerMessage) THEN "handleTacticExploration"
    ELSE IF isPeakFrameworkQuery(lowerMessage) THEN "handlePeakFrameworkGuidance"
    ELSE IF isStatsQuery(lowerMessage) THEN "handleStatsQuery"
    ELSE IF isHelpQuery(lowerMessage) THEN "handleHelpQuery"
    ELSE "handleGeneralQuery"

\* A message text: the template of the source and the values put into it
Content(text, args) == [text |-> text, args |-> args]
\* The children of the messages container
MessageElement(type, content) == [kind |-> "message", type |-> type, content |-> content]
HuntElement(hunt) == [kind |-> "hunt", hunt |-> hunt]
TypingElement(n) == [kind |-> "typing", n |-> n]

\* What a handler did: the elements it appended, whether an exception left
\* it, and the snapshot array after it
Completed(elements, data) == [threw |-> FALSE, elements |-> elements, huntsData |-> data]
Thrown(data) == [threw |-> TRUE, elements |-> <<>>, huntsData |-> data]

\* Array.prototype.slice(0, n)
slice(arr, n) == SubSeq(arr, 1, IF Len(arr) < n THEN Len(arr) ELSE n)

RECURSIVE NumberToString(_)
\* a count as the template literal prints it
NumberToString(n) ==
    IF n < 10 THEN <<Digits[n + 1]>> ELSE NumberToString(n \div 10) \o <<Digits[(n % 10) + 1]>>

AnyThrows(outcomes) == \E i \in 1..Len(outcomes) : outcomes[i] = "throw"

RECURSIVE Kept(_, _)
\* the elements for which a filter callback answered true
Kept(data, outcomes) ==
    IF data = <<>> THEN <<>>
    ELSE IF Head(outcomes) = "true" THEN <<Head(data)>> \o Kept(Tail(data), Tail(outcomes))
    ELSE Kept(Tail(data), Tail(outcomes))

\* The filter callback of searchHunts: reading a property of an absent field
\* throws, unless an earlier operand of || already answered true
searchHuntsCallback(hunt, lowerQuery) ==
    IF hunt.title = undefined THEN "throw"
    ELSE IF includes(toLowerCase(hunt.title), lowerQuery) THEN "true"
    ELSE IF hunt.tactic = undefined THEN "throw"
    ELSE IF includes(toLowerCase(hunt.tactic), lowerQuery) THEN "true"
    ELSE IF hunt.tags = undefinedList THEN "throw"
    ELSE IF \E i \in 1..Len(hunt.tags) : includes(toLowerCase(hunt.tags[i]), lowerQuery) THEN "true"
    ELSE IF hunt.submitter = undefined THEN "throw"
    ELSE IF includes(toLowerCase(hunt.submitter), lowerQuery) THEN "true"
    ELSE IF Truthy(hunt.notes) /\ includes(toLowerCase(hunt.notes), lowerQuery) THEN "true"
    ELSE "false"

\* .filter(...).sort(...): sort orders the array filter built
searchHuntsSorted(data, outcomes, lowerQuery) ==
    IF AnyThrows(outcomes) THEN [threw |-> TRUE, result |-> <<>>, huntsData |-> data]
    ELSE [threw |-> FALSE,
          result |-> ArraySort(Kept(data, outcomes), [fn |-> "score", lowerQuery |-> lowerQuery]),
          huntsData |-> data]

searchHunts(data, query) ==
    searchHuntsSorted(data,
                      ArrayMap(data, LAMBDA hunt : searchHuntsCallback(hunt, toLowerCase(query))),
                      toLowerCase(query))

handleHuntSearchReply(found) ==
    IF found.threw THEN Thrown(found.huntsData)
    ELSE IF Len(found.result) = 0
    THEN Completed(<<MessageElement("bot",
             Content("I couldn't find any hunts matching your query.", <<>>))>>,
             found.huntsData)
    ELSE Completed(
             <<MessageElement("bot",
                 Content("Found ${results.length} hunt${s} matching your query:",
                         <<NumberToString(Len(found.result)),
                           IF Len(found.result) > 1 THEN <<"s">> ELSE <<>> >>))>>
             \o ArrayMap(slice(found.result, 5), HuntElement)
             \o (IF Len(found.result) > 5
                 THEN <<MessageElement("system",
                          Content("Showing top 5 results. ${results.length - 5} more hunts match your query.",
                                  <<NumberToString(Len(found.result) - 5)>>))>>
                 ELSE <<>>),
             found.huntsData)

handleHuntSearch(data, query) == handleHuntSearchReply(searchHunts(data, query))

tactics == <<Chars("persistence"), Chars("execution"), Chars("lateral movement"),
    Chars("exfiltration"), Chars("command and control"), Chars("reconnaissance"),
    Chars("initial access"), Chars("defense evasion"), Chars("credential access"),
    Chars("discovery"), Chars("collection"), Chars("impact")>>

RECURSIVE FirstIncluded(_, _, _)
FirstIncluded(lowerMessage, list, i) ==
    IF i > Len(list) THEN Chars("unknown")
    ELSE IF includes(lowerMessage, list[i]) THEN list[i]
    ELSE FirstIncluded(lowerMessage, list, i + 1)

extractTactic(message) == FirstIncluded(toLowerCase(message), tactics, 1)

handleTacticExplorationReply(data, hunts, tactic) ==
    IF Len(hunts) = 0
    THEN Completed(<<MessageElement("bot",
             Content("I couldn't find hunts specifically for ${tactic}.", <<tactic>>))>>, data)
    ELSE Completed(
             <<MessageElement("bot",
                 Content("Found ${hunts.length} hunt${s} targeting **${tactic}**:",
                         <<NumberToString(Len(hunts)), IF Len(hunts) > 1 THEN <<"s">> ELSE <<>>,
                           tactic>>))>>
             \o ArrayMap(slice(hunts, 3), HuntElement),
             data)

\* hunt.tactic.toLowerCase() throws for a record without tactic
handleTacticExplorationFor(data, tactic) ==
    IF \E i \in 1..Len(data) : data[i].tactic = undefined THEN Thrown(data)
    ELSE handleTacticExplorationReply(data,
             ArrayFilter(data, LAMBDA hunt :
                 includes(toLowerCase(hunt.tactic), toLowerCase(tactic))),
             tactic)

handleTacticExploration(data, message) == handleTacticExplorationFor(data, extractTactic(message))

handlePeakFrameworkGuidance(data) ==
    Completed(<<MessageElement("bot", Content("PEAK Framework Guidance", <<>>))>>, data)

\* tacticCounts: one entry per tactic name in insertion order, with the
\* number of times the name occurs (names that look like array indices,
\* which Object.entries would move to the front, do not occur)
CountOf(items, item) == Cardinality({i \in 1..Len(items) : items[i] = item})
tacticCountEntries(items, names) ==
    [k \in 1..Len(names) |-> [tactic |-> names[k], count |-> CountOf(items, names[k])]]
tacticCounts(items) == tacticCountEntries(items, SetOrder(<<>>, items))

\* generateStats for records that all have a tactic and a submitter
generateStats(data) ==
    [total |-> Len(data),
     flames |-> Len(ArrayFilter(data, LAMBDA h : h.category = "Flames")),
     embers |-> Len(ArrayFilter(data, LAMBDA h : h.category = "Embers")),
     alchemy |-> Len(ArrayFilter(data, LAMBDA h : h.category = "Alchemy")),
     topTactics |-> slice(ArraySort(
                        tacticCounts(Flatten([i \in 1..Len(data) |->
                            ArrayMap(split(data[i].tactic, ","), trim)])),
                        [fn |-> "count"]), 5),
     contributors |-> Len(SetOrder(<<>>, [i \in 1..Len(data) |-> data[i].submitter]))]

handleStatsQueryReply(stats, data) ==
    Completed(<<MessageElement("bot",
        Content("HEARTH Database Stats",
                <<NumberToString(stats.total), NumberToString(stats.flames), NumberToString(stats.embers),
                  NumberToString(stats.alchemy)>>
                \o Flatten([k \in 1..Len(stats.topTactics) |->
                       <<stats.topTactics[k].tactic, NumberToString(stats.topTactics[k].count)>>])
                \o <<NumberToString(stats.contributors)>>))>>, data)

\* hunt.tactic.split and h.submitter.name throw for a record without them
handleStatsQuery(data) ==
    IF \E i \in 1..Len(data) : data[i].tactic = undefined \/ data[i].submitter = undefined
    THEN Thrown(data)
    ELSE handleStatsQueryReply(generateStats(data), data)

handleHelpQuery(data) ==
    Completed(<<MessageElement("bot", Content("I can help you with:", <<>>))>>, data)

commonWords == <<Chars("the"), Chars("a"), Chars("an"), Chars("and"), Chars("or"), Chars("but"),
    Chars("in"), Chars("on"), Chars("at"), Chars("to"), Chars("for"), Chars("of"), Chars("with"),
    Chars("by"), Chars("about"), Chars("can"), Chars("you"), Chars("me"), Chars("i"),
    Chars("is"), Chars("are"), Chars("was"), Chars("were"), Chars("have"), Chars("has"),
    Chars("had"), Chars("do"), Chars("does"), Chars("did"), Chars("will"), Chars("would"),
    Chars("could"), Chars("should")>>

\* \w of a regular expression
WordChars == {UpperCase[i] : i \in 1..26} \cup {LowerCase[i] : i \in 1..26}
                 \cup {Digits[i] : i \in 1..10} \cup {"_"}

\* replace(/[^\w\s]/g, '')
StripPunctuation(s) == SelectSeq(s, LAMBDA c : c \in WordChars \/ c = " ")

RECURSIVE splitWhitespace(_)
\* split(/\s+/): a run of spaces separates; a leading or trailing run leaves
\* an empty string at that end
splitWhitespace(s) ==
    IF IndexOf(s, " ") = 0 THEN <<s>>
    ELSE <<SubSeq(s, 1, IndexOf(s, " ") - 1)>>
         \o splitWhitespace(TrimStart(SubSeq(s, IndexOf(s, " "), Len(s))))

extractKeywords(message) ==
    ArrayFilter(splitWhitespace(StripPunctuation(toLowerCase(message))),
                LAMBDA word : Len(word) > 2 /\ ~ArrayIncludes(commonWords, word))

\* title, tactic and tags of a record against one keyword
keywordCallback(hunt, keyword) ==
    IF hunt.title = undefined THEN "throw"
    ELSE IF includes(toLowerCase(hunt.title), keyword) THEN "true"
    ELSE IF hunt.tactic = undefined THEN "throw"
    ELSE IF includes(toLowerCase(hunt.tactic), keyword) THEN "true"
    ELSE IF hunt.tags = undefinedList THEN "throw"
    ELSE IF \E i \in 1..Len(hunt.tags) : includes(toLowerCase(hunt.tags[i]), keyword) THEN "true"
    ELSE "false"

RECURSIVE someKeyword(_, _)
\* keywords.some(...): the first keyword that answers true or throws decides
someKeyword(hunt, keywords) ==
    IF keywords = <<>> THEN "false"
    ELSE IF keywordCallback(hunt, Head(keywords)) = "false" THEN someKeyword(hunt, Tail(keywords))
    ELSE keywordCallback(hunt, Head(keywords))

searchHuntsByKeywordsKept(data, outcomes) ==
    IF AnyThrows(outcomes) THEN [threw |-> TRUE, result |-> <<>>]
    ELSE [threw |-> FALSE, result |-> slice(Kept(data, outcomes), 5)]

searchHuntsByKeywords(data, keywords) ==
    IF Len(keywords) = 0 THEN [threw |-> FALSE, result |-> <<>>]
    ELSE searchHuntsByKeywordsKept(data,
             ArrayMap(data, LAMBDA hunt : someKeyword(hunt, keywords)))

suggestions == <<"Try asking me to 'show me persistence hunts' or 'find lateral movement hunts'",
    "Ask about the PEAK framework: 'when should I use Flames?'",
    "Get stats: 'how many hunts do we have?'",
    "Need help? Just ask 'what can you help with?'">>

\* randomIndex is Math.floor(Math.random() * suggestions.length) + 1
handleGeneralQueryReply(found, data, randomIndex) ==
    IF found.threw THEN Thrown(data)
    ELSE IF Len(found.result) > 0
    THEN Completed(<<MessageElement("bot",
                       Content("Based on your message, here are some relevant hunts:", <<>>))>>
                   \o ArrayMap(slice(found.result, 3), HuntElement), data)
    ELSE Completed(<<MessageElement("bot",
                       Content("I'm not sure how to help with that. ${randomSuggestion}",
                               <<Chars(suggestions[randomIndex])>>))>>, data)

handleGeneralQuery(data, message, randomIndex) ==
    handleGeneralQueryReply(searchHuntsByKeywords(data, extractKeywords(message)), data,
                            randomIndex)

\* The handler processMessage chose, called on the message
CallHandler(handler, data, message, randomIndex) ==
    CASE handler = "handleHuntSearch" -> handleHuntSearch(data, message)
      [] handler = "handleTacticExploration" -> handleTacticExploration(data, message)
      [] handler = "handlePeakFrameworkGuidance" -> handlePeakFrameworkGuidance(data)
      [] handler = "handleStatsQuery" -> handleStatsQuery(data)
      [] handler = "handleHelpQuery" -> handleHelpQuery(data)
      [] handler = "handleGeneralQuery" -> handleGeneralQuery(data, message, randomIndex)

\* element.remove() of the typing indicator n (0 is null)
RemoveTyping(container, n) == SelectSeq(container, LAMBDA e : ~(e.kind = "typing" /\ e.n = n))

\* this.messages.push for the messages among the appended elements
StoredMessages(elements) ==
    ArrayMap(ArrayFilter(elements, LAMBDA e : e.kind = "message"),
             LAMBDA e : [type |-> e.type, content |-> e.content])

\* The constructor: the widget is closed and holds the welcome message
ChatInit ==
    /\ chatInput = <<>>
    /\ sendButtonDisabled = FALSE
    /\ isOpen = FALSE
    /\ messages = <<[type |-> "bot",
                     content |-> Content("Welcome to the HEARTH Hunt Assistant!", <<>>)]>>
    /\ messagesContainer = <<MessageElement("bot",
                               Content("Welcome to the HEARTH Hunt Assistant!", <<>>))>>
    /\ currentTypingIndicator = 0
    /\ timers = <<>>
    /\ handled = <<>>

\* The page without a chat widget
ChatIdle ==
    /\ chatInput = <<>>
    /\ sendButtonDisabled = FALSE
    /\ isOpen = FALSE
    /\ messages = <<>>
    /\ messagesContainer = <<>>
    /\ currentTypingIndicator = 0
    /\ timers = <<>>
    /\ handled = <<>>

\* 'input' on the chat input: the Send button follows the value
ChatInputListener(value) ==
    /\ chatInput' = value
    /\ sendButtonDisabled' = (Len(trim(value)) = 0)
    /\ UNCHANGED <<HUNTS_DATA, isOpen, messages, messagesContainer, currentTypingIndicator,
                   timers, handled>>

\* sendMessage(), from a click on Send or from Enter in the chat input
sendMessage ==
    /\ IF trim(chatInput) = <<>>
       THEN UNCHANGED <<chatInput, sendButtonDisabled, messages, messagesContainer,
                        currentTypingIndicator, timers>>
       ELSE /\ chatInput' = <<>>
            /\ sendButtonDisabled' = TRUE
            /\ messages' = Append(messages,
                               [type |-> "user", content |-> Content("${message}", <<trim(chatInput)>>)])
            /\ messagesContainer' =
                   Append(RemoveTyping(
                              Append(messagesContainer,
                                     MessageElement("user", Content("${message}", <<trim(chatInput)>>))),
                              currentTypingIndicator),
                          TypingElement(Len(messages) + 1))
            /\ currentTypingIndicator' = Len(messages) + 1
            /\ timers' = Append(timers, trim(chatInput))
    /\ UNCHANGED <<HUNTS_DATA, isOpen, handled>>

\* the user types while fewer than MaxSends messages were sent
TypeMessage(value) ==
    /\ Len(timers) + Len(handled) < MaxSends
    /\ ChatInputListener(value)

\* sendMessage while fewer than MaxSends messages were sent
SendMessage ==
    /\ Len(timers) + Len(handled) < MaxSends
    /\ sendMessage

\* What processMessage(message) leaves behind, the handler having run
Processed(message, handler, effect) ==
    /\ currentTypingIndicator' = 0
    /\ messagesContainer' = RemoveTyping(messagesContainer, currentTypingIndicator)
                                \o effect.elements
    /\ messages' = messages \o StoredMessages(effect.elements)
    /\ handled' = Append(handled,
                         [message |-> message, handler |-> handler, threw |-> effect.threw])
    /\ HUNTS_DATA' = effect.huntsData

\* Mutant: the handler of the previous turn is kept for the next message
processMessage_previousIntent(message, handler, randomIndex) ==
    Processed(message,
              IF handled = <<>> THEN handler ELSE handled[Len(handled)].handler,
              CallHandler(IF handled = <<>> THEN handler ELSE handled[Len(handled)].handler,
                          HUNTS_DATA, message, randomIndex))

processMessage(message, handler, randomIndex) ==
    Processed(message, handler, CallHandler(handler, HUNTS_DATA, message, randomIndex))

\* The timer sendMessage set for the i-th pending message fires
TimerFire(i, randomIndex) ==
    /\ i \in 1..Len(timers)
    /\ processMessage(timers[i], intentHandler(toLowerCase(timers[i])), randomIndex)
    /\ timers' = [k \in 1..(Len(timers) - 1) |-> IF k < i THEN timers[k] ELSE timers[k + 1]]
    /\ UNCHANGED <<chatInput, sendButtonDisabled, isOpen>>

(***************************************************************************)
(* The page and the harnesses                                              *)
(***************************************************************************)
\* The option values of a select: 'All ...' (the empty value) and the list
OptionValues(options) == {<<>>} \cup {options[i] : i \in 1..Len(options)}

\* A call of a harness: not made yet, or made and returned v
NotCalled == [done |-> FALSE, value |-> <<>>]
Returned(v) == [done |-> TRUE, value |-> v]

\* No HearthApp was constructed
AppIdle ==
    /\ searchInput = <<>>
    /\ categoryFilter = ""
    /\ tacticFilter = <<>>
    /\ tagFilter = <<>>
    /\ sortHuntsSelect = "id-asc"
    /\ tacticOptions = <<>>
    /\ tagOptions = <<>>
    /\ searchCache = [k \in {"unique_tactic", "unique_tags"} |-> NoEntry]
    /\ filteredHunts = <<>>
    /\ huntsGrid = <<>>
    /\ huntCount = 0
    /\ debouncePending = FALSE

\* sortHunts is not called on its own.  The ids of HuntPool all parse, so the
\* comparators are consistent and the engines give the same order: the page
\* is followed in one of them.
SortIdle ==
    /\ sortEngine = "run counting"
    /\ sortArg = <<>>
    /\ sortCalls = [k \in {"id-asc", "id-desc", "id-asc again", "id-desc again"} |-> NotCalled]

MatchIdle ==
    /\ matchArg = [hunt |-> B002, tactic |-> <<>>]
    /\ matchCall = NotCalled

\* getUniqueValues was called by initializeDropdowns only
UniqueIdle == uniqueCall = [done |-> FALSE, fieldName |-> "tactic", value |-> <<>>]

\* a call of a function that may throw: not made yet
NotSearched == [done |-> FALSE, threw |-> FALSE, result |-> <<>>]
SearchIdle ==
    /\ searchArg = <<>>
    /\ searchCall = NotSearched

\* createModal: the modal is hidden and its body is empty
ModalIdle ==
    /\ modalBody = [view |-> "empty", id |-> <<>>, controls |-> {}, request |-> 0]
    /\ modalDisplay = "none"
    /\ notebookTimers = <<>>
    /\ modalRequests = <<>>

\* no notebook is generated outside the modal
NotebookIdle ==
    /\ notebookArg = [hunt |-> B002, script |-> "part_004"]
    /\ pendingHuntData = NotCalled
    /\ notebookCall = NotCalled

\* hunts-data.js has run; the page load is not followed
BootIdle ==
    /\ dataDefined = TRUE
    /\ listenersRun = {}
    /\ chatRetry = FALSE
    /\ bootLog = <<>>

\* no hunt result of the chat was clicked
NoClick == [done |-> FALSE, hunt |-> B002, isOpen |-> FALSE, huntsGrid |-> <<>>]
ClickIdle == lastClick = NoClick

\* innerHTML of the size buttons
MinusSign == "MINUS SIGN"
PlusSign == "+"
WhiteSquare == "WHITE SQUARE"
TwoJoinedSquares == "TWO JOINED SQUARES"

\* the resizable widget as its constructor and createChatWidget leave it:
\* no inline style is set, the minimize button has no onclick handler yet,
\* no handle is held
NewResizableWidget ==
    [isOpen |-> FALSE,
     isResizing |-> FALSE,
     resizeDirection |-> "null",
     startX |-> 0,
     startY |-> 0,
     startWidth |-> 0,
     startHeight |-> 0,
     chatResizing |-> FALSE,
     body |-> [cursor |-> "", userSelect |-> ""],
     isMaximized |-> FALSE,
     originalDimensions |-> [width |-> 350, height |-> 500, right |-> 20, bottom |-> 20],
     style |-> [width |-> <<>>, height |-> <<>>, right |-> <<>>, bottom |-> <<>>,
                left |-> <<>>, top |-> <<>>],
     messagesDisplay |-> "",
     inputDisplay |-> "",
     minimizeBtn |-> [innerHTML |-> MinusSign, title |-> "Minimize", onclick |-> "null"],
     maximizeBtn |-> [innerHTML |-> WhiteSquare, title |-> "Maximize"]]

\* the resizable widget is not used
ResizeIdle ==
    /\ resizable = NewResizableWidget
    /\ widgetEvents = <<>>

\* the harnesses that are added to the page leave it alone
OtherIdle == SearchIdle /\ ModalIdle /\ BootIdle /\ NotebookIdle /\ ClickIdle /\ ResizeIdle

\* The variables an event of the catalog, and one of the chat, leaves alone
catalogFrame == <<loadedSnapshot, chatVars, sortVars, matchVars, uniqueVars, otherVars>>
chatFrame == <<loadedSnapshot, appVars, sortVars, matchVars, uniqueVars, otherVars>>

(***************************************************************************)
(* The catalog on its own, over every snapshot of up to MaxHunts records   *)
(***************************************************************************)
CatalogInit ==
    /\ HUNTS_DATA \in Snapshots
    /\ loadedSnapshot = HUNTS_DATA
    /\ SortIdle
    /\ AppInit
    /\ ChatIdle
    /\ MatchIdle
    /\ UniqueIdle
    /\ OtherIdle

CatalogNext ==
    \/ \E value \in SearchInputs : SearchInput(value) /\ UNCHANGED catalogFrame
    \/ DebounceFire /\ UNCHANGED catalogFrame
    \/ ClearSearch /\ UNCHANGED catalogFrame
    \/ \E value \in CategoryValues : CategoryChange(value) /\ UNCHANGED catalogFrame
    \/ \E value \in OptionValues(tacticOptions) : TacticChange(value) /\ UNCHANGED catalogFrame
    \/ \E value \in OptionValues(tagOptions) : TagChange(value) /\ UNCHANGED catalogFrame
    \/ \E value \in SortValues : SortChange(value) /\ UNCHANGED catalogFrame

SpecCatalog == CatalogInit /\ [][CatalogNext]_vars

(***************************************************************************)
(* The chat widget on its own                                              *)
(***************************************************************************)
\* Snapshots the page is loaded with: one whose order is neither that of
\* the title scores nor that of the ids descending, one with absent fields
LoadedSnapshots == {<<B002, H009>>, <<H010, M001>>}

\* What the user sends to the assistant
Utterances == {
    Chars("  "),
    Chars("Show me persistence hunts"), Chars("find embers"), Chars("search stats"),
    Chars("look for help"), Chars("hunts for impact"), Chars("related to dll"),
    Chars(" find"), Chars("Persistence"),
    Chars("What hunts target execution?"), Chars("tactic count"),
    Chars("persistence framework"), Chars("lateral movement help"), Chars("exfiltration"),
    Chars("command and control"), Chars("Execution or persistence"),
    Chars("peak"), Chars("When should I use Flames?"), Chars("embers total"),
    Chars("alchemy commands"), Chars("framework"), Chars("category"), Chars("when to use"),
    Chars("How many hunts do we have?"), Chars("count"), Chars("stats help"),
    Chars("statistics"), Chars("total"),
    Chars("help"), Chars("what can you do"), Chars("commands"), Chars("how to"),
    Chars("odd dll"), Chars("hello"), Chars("Is it a c2, or the baseline?"),
    Chars("Is it on?") }

ChatInit0 ==
    /\ HUNTS_DATA \in LoadedSnapshots
    /\ loadedSnapshot = HUNTS_DATA
    /\ AppIdle
    /\ ChatInit
    /\ SortIdle
    /\ MatchIdle
    /\ UniqueIdle
    /\ OtherIdle

ChatNext ==
    \/ \E value \in Utterances : TypeMessage(value) /\ UNCHANGED chatFrame
    \/ SendMessage /\ UNCHANGED chatFrame
    \/ \E i \in 1..Len(timers), randomIndex \in 1..Len(suggestions) :
           TimerFire(i, randomIndex) /\ UNCHANGED chatFrame

SpecChat == ChatInit0 /\ [][ChatNext]_vars

(***************************************************************************)
(* A conversation of up to MaxTurns messages                               *)
(***************************************************************************)
TurnUtterances == {Chars("find execution"), Chars("stats"), Chars("hello")}

TurnsNext ==
    \/ \E value \in TurnUtterances :
           /\ Len(timers) + Len(handled) < MaxTurns
           /\ ChatInputListener(value)
           /\ UNCHANGED chatFrame
    \/ /\ Len(timers) + Len(handled) < MaxTurns
       /\ sendMessage
       /\ UNCHANGED chatFrame
    \/ \E i \in 1..Len(timers), randomIndex \in 1..Len(suggestions) :
           TimerFire(i, randomIndex) /\ UNCHANGED chatFrame

SpecTurns == ChatInit0 /\ [][TurnsNext]_vars

(***************************************************************************)
(* The page: the catalog and the chat widget over the same HUNTS_DATA      *)
(***************************************************************************)
PageSearchInputs == {<<>>, Chars("PERSIST")}
PageCategoryValues == {"", "Embers"}
PageUtterances == {Chars("find"), Chars("What hunts target execution?"),
                   Chars("How many hunts do we have?"), Chars("odd dll")}

Init ==
    /\ HUNTS_DATA \in LoadedSnapshots
    /\ loadedSnapshot = HUNTS_DATA
    /\ SortIdle
    /\ AppInit
    /\ ChatInit
    /\ MatchIdle
    /\ UniqueIdle
    /\ OtherIdle

Next ==
    \/ \E value \in PageSearchInputs : SearchInput(value) /\ UNCHANGED catalogFrame
    \/ DebounceFire /\ UNCHANGED catalogFrame
    \/ ClearSearch /\ UNCHANGED catalogFrame
    \/ \E value \in PageCategoryValues : CategoryChange(value) /\ UNCHANGED catalogFrame
    \/ \E value \in OptionValues(tacticOptions) : TacticChange(value) /\ UNCHANGED catalogFrame
    \/ \E value \in OptionValues(tagOptions) : TagChange(value) /\ UNCHANGED catalogFrame
    \/ \E value \in SortValues : SortChange(value) /\ UNCHANGED catalogFrame
    \/ \E value \in PageUtterances : TypeMessage(value) /\ UNCHANGED chatFrame
    \/ SendMessage /\ UNCHANGED chatFrame
    \/ \E i \in 1..Len(timers), randomIndex \in 1..Len(suggestions) :
           TimerFire(i, randomIndex) /\ UNCHANGED chatFrame

Spec == Init /\ [][Next]_vars

(***************************************************************************)
(* Sort harness: sortHunts applied to bounded arrays of records            *)
(***************************************************************************)
SortPool == {
    Hunt(<<"H","1">>, "Flames", <<"a">>, <<>>, <<>>, <<>>, <<>>),
    Hunt(<<"H","0","1">>, "Flames", <<"b">>, <<>>, <<>>, <<>>, <<>>),
    Hunt(<<"H","2">>, "Flames", <<"c">>, <<>>, <<>>, <<>>, <<>>),
    Hunt(<<"H","9">>, "Flames", <<"d">>, <<>>, <<>>, <<>>, <<>>),
    Hunt(<<"H","1","0">>, "Flames", <<"e">>, <<>>, <<>>, <<>>, <<>>),
    Hunt(<<"H","X">>, "Flames", <<"f">>, <<>>, <<>>, <<>>, <<>>),
    Hunt(<<"B","2">>, "Embers", <<"g">>, <<>>, <<>>, <<>>, <<>>),
    Hunt(<<"M","1">>, "Alchemy", <<"h">>, <<>>, <<>>, <<>>, <<>>) }

SortInit ==
    /\ HUNTS_DATA = <<>>
    /\ loadedSnapshot = HUNTS_DATA
    /\ AppIdle
    /\ ChatIdle
    /\ MatchIdle
    /\ UniqueIdle
    /\ OtherIdle
    /\ sortEngine \in SortEngines
    /\ sortArg \in InjectiveSeqs(SortPool, MaxSortLen)
    /\ sortCalls = [k \in {"id-asc", "id-desc", "id-asc again", "id-desc again"} |-> NotCalled]

\* sortHunts(sortArg) with the select at sortValue
CallSortHunts(sortValue) ==
    /\ ~sortCalls[sortValue].done
    /\ sortCalls' = [sortCalls EXCEPT ![sortValue] = Returned(sortHunts(sortArg, sortValue))]
    /\ UNCHANGED <<sortEngine, sortArg, HUNTS_DATA, loadedSnapshot, appVars, chatVars, matchVars,
                   uniqueVars, otherVars>>

\* sortHunts applied to what sortHunts returned, same direction
CallSortHuntsAgain(sortValue) ==
    /\ sortCalls[sortValue].done
    /\ ~sortCalls[sortValue \o " again"].done
    /\ sortCalls' = [sortCalls EXCEPT ![sortValue \o " again"] =
                        Returned(sortHunts(sortCalls[sortValue].value, sortValue))]
    /\ UNCHANGED <<sortEngine, sortArg, HUNTS_DATA, loadedSnapshot, appVars, chatVars, matchVars,
                   uniqueVars, otherVars>>

SortNext ==
    \/ \E v \in SortValues : CallSortHunts(v)
    \/ \E v \in SortValues : CallSortHuntsAgain(v)

SpecSort == SortInit /\ [][SortNext]_vars

(***************************************************************************)
(* Matcher harness: matchesTactic applied to a record and a selection      *)
(***************************************************************************)
\* tactic fields: absent, empty, one name, names separated by a comma with
\* and without blanks around them, an empty element
MatchTacticFields == {undefined, <<>>, Chars("Defense Evasion"), Chars("Persistence, Execution"),
    Chars("Command and Control,Remote Execution "), Chars(" Execution ,Impact"),
    Chars("Execution,,Discovery")}
\* selections: none, whole names, parts of names, a name with a blank
MatchTactics == {<<>>, Chars("Defense Evasion"), Chars("Persistence"), Chars("Execution"),
    Chars("Remote Execution"), Chars("Evasion"), Chars(" Execution"),
    Chars("Command and Control")}

MatchInit ==
    /\ HUNTS_DATA = <<>>
    /\ loadedSnapshot = HUNTS_DATA
    /\ AppIdle
    /\ ChatIdle
    /\ SortIdle
    /\ UniqueIdle
    /\ OtherIdle
    /\ matchArg \in [hunt : {[H009 EXCEPT !.tactic = t] : t \in MatchTacticFields},
                     tactic : MatchTactics]
    /\ matchCall = NotCalled

\* matchesTactic(matchArg.hunt, matchArg.tactic)
CallMatchesTactic ==
    /\ ~matchCall.done
    /\ matchCall' = Returned(matchesTactic(matchArg.hunt, matchArg.tactic))
    /\ UNCHANGED <<matchArg, sortVars, HUNTS_DATA, loadedSnapshot, appVars, chatVars, uniqueVars, otherVars>>

MatchNext == CallMatchesTactic

SpecMatch == MatchInit /\ [][MatchNext]_vars

(***************************************************************************)
(* getUniqueValues called again while the catalog is in use                *)
(***************************************************************************)
\* a record whose tactic and tags repeat values of the other records, in
\* another case, with blanks around them and with empty elements
D003 == Hunt(Chars("D003"), "Embers", Chars("Dup"), Chars(" Execution ,persistence,,Persistence"),
             undefined, <<Chars("dll"), Chars("Baseline"), <<>>, Chars("baseline")>>, Chars("Bob"))
UniquePool == {B002, H009, H010, D003}
UniqueSearchInputs == {<<>>, Chars("dll")}
UniqueCategoryValues == {"", "Flames"}

UniqueInit ==
    /\ HUNTS_DATA \in InjectiveSeqs(UniquePool, MaxHunts)
    /\ loadedSnapshot = HUNTS_DATA
    /\ SortIdle
    /\ AppInit
    /\ ChatIdle
    /\ MatchIdle
    /\ UniqueIdle
    /\ OtherIdle

\* what a call of getUniqueValues(fieldName) leaves behind
UniqueReturned(fieldName, r) ==
    /\ uniqueCall' = [done |-> TRUE, fieldName |-> fieldName, value |-> r.result]
    /\ searchCache' = r.cache

\* this.getUniqueValues(fieldName), called after the constructor
CallGetUniqueValues(fieldName) ==
    /\ UniqueReturned(fieldName, getUniqueValues(searchCache, HUNTS_DATA, fieldName))
    /\ UNCHANGED <<HUNTS_DATA, loadedSnapshot, searchInput, categoryFilter, tacticFilter,
                   tagFilter, sortHuntsSelect, tacticOptions, tagOptions, filteredHunts,
                   huntsGrid, huntCount, debouncePending, chatVars, sortVars, matchVars, otherVars>>

UniqueNext ==
    \/ \E value \in UniqueSearchInputs : SearchInput(value) /\ UNCHANGED catalogFrame
    \/ DebounceFire /\ UNCHANGED catalogFrame
    \/ \E value \in UniqueCategoryValues : CategoryChange(value) /\ UNCHANGED catalogFrame
    \/ \E value \in OptionValues(tacticOptions) : TacticChange(value) /\ UNCHANGED catalogFrame
    \/ \E fieldName \in {"tactic", "tags"} : CallGetUniqueValues(fieldName)

SpecUnique == UniqueInit /\ [][UniqueNext]_vars

(***************************************************************************)
(* Search harness: searchHunts of the chat widget applied to a query       *)
(***************************************************************************)
\* queries found in an id, a title, a tactic, a tag, a submitter name, notes
SearchQueries == {Chars("H009"), Chars("on"), Chars("Execution"), Chars("dll"), Chars("ann"),
                  Chars("jitter")}

SearchInit ==
    /\ HUNTS_DATA \in Snapshots
    /\ loadedSnapshot = HUNTS_DATA
    /\ AppIdle
    /\ ChatIdle
    /\ SortIdle
    /\ MatchIdle
    /\ UniqueIdle
    /\ searchArg \in SearchQueries
    /\ searchCall = NotSearched
    /\ ModalIdle
    /\ BootIdle
    /\ NotebookIdle
    /\ ClickIdle
    /\ ResizeIdle

\* what a call of searchHunts leaves behind
Searched(found) ==
    /\ searchCall' = [done |-> TRUE, threw |-> found.threw, result |-> found.result]
    /\ HUNTS_DATA' = found.huntsData

\* this.searchHunts(searchArg)
CallSearchHunts ==
    /\ ~searchCall.done
    /\ Searched(searchHunts(HUNTS_DATA, searchArg))
    /\ UNCHANGED <<searchArg, loadedSnapshot, appVars, chatVars, sortVars, matchVars, uniqueVars,
                   modalVars, bootVars, notebookVars, clickVars, resizeVars>>

SearchNext == CallSearchHunts

SpecSearch == SearchInit /\ [][SearchNext]_vars

(***************************************************************************)
(* The detail modal and generateNotebook                                   *)
(***************************************************************************)
\* What #modal-body shows: a view, the record id it was built for, the
\* buttons and links it offers, and the number of the request that wrote it
ModalView(view, id, request) ==
    [view |-> view, id |-> id, request |-> request,
     controls |-> CASE view = "details" -> {"View Source", "Generate Notebook"}
                    [] view = "loading" -> {}
                    [] view = "success" -> {"Download Notebook (.ipynb)", "Generate Another",
                                            "Show Hunt Data"}
                    [] view = "error" -> {"Try Again", "Close"}
                    [] view = "hunt-json-data" -> {"Copy JSON", "Back to Notebook"}]

\* showHuntDetails(hunt): a click on the card of hunt
ShowHuntDetails(hunt) ==
    /\ Len(modalRequests) < MaxRequests
    /\ modalBody' = ModalView("details", hunt.id, Len(modalRequests) + 1)
    /\ modalDisplay' = "block"
    /\ modalRequests' = Append(modalRequests,
                               [kind |-> "details", id |-> hunt.id, outcome |-> "shown"])
    /\ UNCHANGED notebookTimers

\* closeModal: the close button, a click beside the content, Escape
CloseModal ==
    /\ modalDisplay = "block"
    /\ modalDisplay' = "none"
    /\ UNCHANGED <<modalBody, notebookTimers, modalRequests>>

\* Mutant: the record that find returned is not tested
generateNotebookLookup_unchecked(data, huntId) == "pending"

\* HUNTS_DATA.find(h => h.id === huntId); if (!hunt) throw: the call goes on
\* to its delay, or its catch block shows the error
generateNotebookLookup(data, huntId) ==
    IF \E k \in 1..Len(data) : data[k].id = huntId THEN "pending" ELSE "error"

\* generateNotebook up to its await (or through its catch block)
generateNotebookBegun(huntId, outcome) ==
    /\ modalBody' = ModalView(IF outcome = "error" THEN "error" ELSE "loading", huntId,
                              Len(modalRequests) + 1)
    /\ notebookTimers' = IF outcome = "error" THEN notebookTimers
                         ELSE Append(notebookTimers,
                                     [huntId |-> huntId, request |-> Len(modalRequests) + 1])
    /\ modalRequests' = Append(modalRequests,
                               [kind |-> "notebook", id |-> huntId, outcome |-> outcome])
    /\ UNCHANGED modalDisplay

\* generateNotebook(huntId) called: a button of the modal, or any caller
GenerateNotebook(huntId) ==
    /\ Len(modalRequests) < MaxRequests
    /\ generateNotebookBegun(huntId, generateNotebookLookup(HUNTS_DATA, huntId))

\* The delay of the oldest waiting call ends (the delays are all 2000 ms, so
\* the calls resume in the order they were made): the success view is written
NotebookTimerFire ==
    /\ notebookTimers # <<>>
    /\ modalBody' = ModalView("success", Head(notebookTimers).huntId, Head(notebookTimers).request)
    /\ modalRequests' = [modalRequests EXCEPT ![Head(notebookTimers).request].outcome = "success"]
    /\ notebookTimers' = Tail(notebookTimers)
    /\ UNCHANGED modalDisplay

\* showHuntJsonData(huntId): the 'Show Hunt Data' button of the success view,
\* or any caller.  For an id of no record it returns and changes nothing.
ShowHuntJsonData(huntId) ==
    IF \E k \in 1..Len(HUNTS_DATA) : HUNTS_DATA[k].id = huntId
    THEN /\ Len(modalRequests) < MaxRequests
         /\ modalBody' = ModalView("hunt-json-data", huntId, Len(modalRequests) + 1)
         /\ modalRequests' = Append(modalRequests,
                                    [kind |-> "data", id |-> huntId, outcome |-> "shown"])
         /\ UNCHANGED <<modalDisplay, notebookTimers>>
    ELSE UNCHANGED modalVars

\* ids a notebook is asked for: those of the pool and one of no record
NotebookIds == {Chars("B002"), Chars("H009"), Chars("X999")}

modalFrame == <<HUNTS_DATA, loadedSnapshot, appVars, chatVars, sortVars, matchVars, uniqueVars,
                searchVars, bootVars, notebookVars, clickVars, resizeVars>>

ModalInit ==
    /\ HUNTS_DATA \in LoadedSnapshots
    /\ loadedSnapshot = HUNTS_DATA
    /\ SortIdle
    /\ AppInit
    /\ ChatIdle
    /\ MatchIdle
    /\ UniqueIdle
    /\ SearchIdle
    /\ ModalIdle
    /\ BootIdle
    /\ NotebookIdle
    /\ ClickIdle
    /\ ResizeIdle

ModalNext ==
    \/ \E k \in 1..Len(huntsGrid) : ShowHuntDetails(huntsGrid[k]) /\ UNCHANGED modalFrame
    \/ CloseModal /\ UNCHANGED modalFrame
    \/ \E huntId \in NotebookIds : GenerateNotebook(huntId) /\ UNCHANGED modalFrame
    \/ \E huntId \in NotebookIds : ShowHuntJsonData(huntId) /\ UNCHANGED modalFrame
    \/ NotebookTimerFire /\ UNCHANGED modalFrame

SpecModal == ModalInit /\ [][ModalNext]_vars

(***************************************************************************)
(* The chat widget opened and closed while messages wait for their timers  *)
(***************************************************************************)
\* openChat, by toggleChat from a click on the toggle button
openChat ==
    /\ ~isOpen
    /\ isOpen' = TRUE
    /\ UNCHANGED <<HUNTS_DATA, chatInput, sendButtonDisabled, messages, messagesContainer,
                   currentTypingIndicator, timers, handled>>

\* Mutant: closing the chat drops the timers that wait
closeChat_clearsTimers ==
    /\ isOpen
    /\ isOpen' = FALSE
    /\ timers' = <<>>
    /\ UNCHANGED <<HUNTS_DATA, chatInput, sendButtonDisabled, messages, messagesContainer,
                   currentTypingIndicator, handled>>

\* closeChat, from the close button or the Escape key
closeChat ==
    /\ isOpen
    /\ isOpen' = FALSE
    /\ UNCHANGED <<HUNTS_DATA, chatInput, sendButtonDisabled, messages, messagesContainer,
                   currentTypingIndicator, timers, handled>>

\* What is sent: two messages, and inputs of blanks only and of nothing
PendingUtterances == {Chars("stats"), Chars("hello"), Chars("  "), <<>>}

\* a timer that waits fires
SomeTimerFires ==
    \E i \in 1..Len(timers), randomIndex \in 1..Len(suggestions) :
        TimerFire(i, randomIndex) /\ UNCHANGED chatFrame

PendingNext ==
    \/ openChat /\ UNCHANGED chatFrame
    \/ closeChat /\ UNCHANGED chatFrame
    \/ \E value \in PendingUtterances :
           /\ isOpen
           /\ Len(timers) + Len(handled) < MaxTurns
           /\ ChatInputListener(value)
           /\ UNCHANGED chatFrame
    \/ /\ isOpen
       /\ Len(timers) + Len(handled) < MaxTurns
       /\ sendMessage
       /\ UNCHANGED chatFrame
    \/ SomeTimerFires

\* a step that takes a waiting timer off: the step of its callback
TimerRuns ==
    \E i \in 1..Len(timers) :
        timers' = [k \in 1..(Len(timers) - 1) |-> IF k < i THEN timers[k] ELSE timers[k + 1]]

\* setTimeout: a timer that was set runs its callback
SpecPending == ChatInit0 /\ [][PendingNext]_vars /\ WF_timers(TimerRuns)

(***************************************************************************)
(* The chat widget given the examples of its own help texts                *)
(***************************************************************************)
Example(capability, text) == [capability |-> capability, text |-> Chars(text)]

\* handleHelpQuery: the examples of helpText, with the handler of their heading
helpExamples ==
    <<Example("handleHuntSearch", "Show me persistence hunts"),
      Example("handleHuntSearch", "Find hunts about lateral movement"),
      Example("handleHuntSearch", "Search for PowerShell hunts"),
      Example("handleTacticExploration", "What hunts target execution?"),
      Example("handleTacticExploration", "Show me command and control hunts"),
      Example("handlePeakFrameworkGuidance", "When should I use Flames?"),
      Example("handlePeakFrameworkGuidance", "Explain the PEAK framework"),
      Example("handlePeakFrameworkGuidance", "Difference between Embers and Alchemy"),
      Example("handleStatsQuery", "How many hunts do we have?"),
      Example("handleStatsQuery", "Show me database stats")>>

\* addWelcomeMessage: the examples of welcomeText
welcomeExamples ==
    <<Example("handleHuntSearch", "Show me lateral movement hunts"),
      Example("handleTacticExploration", "What hunts target persistence?"),
      Example("handlePeakFrameworkGuidance", "When should I use Flames vs Embers?"),
      Example("handleStatsQuery", "How many hunts do we have?")>>

ExampleUtterances ==
    {helpExamples[k].text : k \in 1..Len(helpExamples)}
        \cup {welcomeExamples[k].text : k \in 1..Len(welcomeExamples)}

ExamplesInit ==
    /\ HUNTS_DATA \in Snapshots
    /\ loadedSnapshot = HUNTS_DATA
    /\ AppIdle
    /\ ChatInit
    /\ SortIdle
    /\ MatchIdle
    /\ UniqueIdle
    /\ OtherIdle

ExamplesNext ==
    \/ \E value \in ExampleUtterances : TypeMessage(value) /\ UNCHANGED chatFrame
    \/ SendMessage /\ UNCHANGED chatFrame
    \/ \E i \in 1..Len(timers), randomIndex \in 1..Len(suggestions) :
           TimerFire(i, randomIndex) /\ UNCHANGED chatFrame

SpecExamples == ExamplesInit /\ [][ExamplesNext]_vars

(***************************************************************************)
(* generateNotebookContent: the template and its JSON text.  The script    *)
(* exists in two copies (part_004, part_003) with different templates.     *)
(* Of the template the lines that read a field of the record are kept.     *)
(***************************************************************************)
LF == "\n"
Quote == "\""
Backslash == "\\"
\* the grave accent that encloses the tactic, as one character
Backtick == "GRAVE ACCENT"

\* a || b
Or(a, b) == IF Truthy(a) THEN a ELSE b

\* ${v} in a template literal
TemplateText(v) == IF v = undefined THEN Chars("undefined") ELSE v

\* generateNotebook: const huntData = {...}
notebookHuntData(hunt) ==
    [id |-> hunt.id,
     title |-> Or(hunt.title, Or(hunt.notes, Chars("Untitled Hunt"))),
     category |-> hunt.category,
     hypothesis |-> Or(hunt.notes, Or(hunt.title, EmptyString)),
     tactic |-> Or(hunt.tactic, EmptyString),
     tags |-> IF hunt.tags = undefinedList THEN <<>> ELSE hunt.tags,
     references |-> Or(hunt.references, EmptyString),
     why |-> Or(hunt.why, EmptyString)]

\* One line of a cell's source: fixed text, the interpolated text, fixed text
TemplateLine(cell, prefix, value, suffix) ==
    [cell |-> cell, prefix |-> Chars(prefix), value |-> value, suffix |-> Chars(suffix) \o <<LF>>]

\* the last line of a cell has no line feed
LastLine(cell, prefix, value) ==
    [cell |-> cell, prefix |-> Chars(prefix), value |-> value, suffix |-> <<>>]

\* huntData.category === 'Flames' ? ... : ...
categoryKind(category) ==
    IF category = "Flames" THEN " - Hypothesis-driven)*"
    ELSE IF category = "Embers" THEN " - Baseline)*" ELSE " - Model-Assisted)*"

\* part_004: the text written where huntData.why is falsy
whyPlaceholder ==
    Chars("*(Has this been observed before in your environment? ")
        \o Chars("Are there any detections/mitigations for this activity already in place?)*")

\* part_004: the text written in the References section where huntData.references is falsy
referencesPlaceholder == Chars("[Insert link to related documentation, reports, or sources]")

\* part_004: the lines of the template that read huntData
templateLines004(huntData, huntTitle) ==
    <<TemplateLine(1, "## Hunt ID: ", TemplateText(huntData.id), ""),
      TemplateLine(1, "*(", Chars(huntData.category), categoryKind(huntData.category)),
      LastLine(1, "## Hunt Title: ", huntTitle),
      TemplateLine(2, "| **Hypothesis**                  | ", huntData.hypothesis, " |"),
      [cell |-> 2, prefix |-> Chars("  - ") \o <<Backtick>>,
       value |-> Or(huntData.tactic, Chars("TAxxxx - Tactic Name")), suffix |-> <<Backtick, LF>>],
      TemplateLine(2, "  - ", Or(huntData.references, Chars("[Link to references]")), ""),
      TemplateLine(2, "  - ", Or(huntData.why, whyPlaceholder), ""),
      [cell |-> 3, prefix |-> Chars("hunt_id = ") \o <<Quote>>, value |-> TemplateText(huntData.id),
       suffix |-> <<Quote, LF>>],
      [cell |-> 3, prefix |-> Chars("hunt_title = ") \o <<Quote>>, value |-> huntTitle,
       suffix |-> <<Quote, LF>>],
      [cell |-> 3, prefix |-> Chars("hunt_hypothesis = ") \o <<Quote>>,
       value |-> huntData.hypothesis, suffix |-> <<Quote, LF>>],
      TemplateLine(11, "*(Restate the hypothesis and topic of the investigation: ",
                   huntData.hypothesis, ")*"),
      TemplateLine(13, "- ", Or(huntData.references, referencesPlaceholder), "")>>

\* part_003: the lines of the template that read huntData
templateLines003(huntData, huntTitle) ==
    <<TemplateLine(1, "# Threat Hunting Notebook: ", huntTitle, ""),
      TemplateLine(1, "**Hunt ID:** ", TemplateText(huntData.id), "  "),
      TemplateLine(1, "**Category:** ", Chars(huntData.category), "  "),
      TemplateLine(1, "**Tactic:** ", huntData.tactic, "  "),
      TemplateLine(2, "**Hypothesis:** ", huntData.hypothesis, ""),
      TemplateLine(2, "", Or(huntData.why, Chars("No explanation provided")), ""),
      TemplateLine(2, "**Tags:** ", join(huntData.tags, Chars(", ")), ""),
      TemplateLine(2, "", Or(huntData.references, Chars("No references provided")), ""),
      TemplateLine(4, "## Hunt: ", huntTitle, ""),
      LastLine(4, "**Hypothesis:** ", huntData.hypothesis),
      TemplateLine(5, "- How can we detect activities related to: ", huntData.hypothesis, "?"),
      TemplateLine(5, "- What data sources contain relevant information for ", huntData.tactic,
                   " tactics?"),
      [cell |-> 6, prefix |-> Chars("hunt_name = ") \o <<Quote>>, value |-> huntTitle,
       suffix |-> <<Quote, LF>>],
      TemplateLine(7, "# Hunt: ", huntData.hypothesis, ""),
      TemplateLine(7, "# Tactic: ", huntData.tactic, "")>>

\* Mutant: the double quote is written without its backslash
jsonEscape_quoteKept(c) ==
    IF c = Backslash THEN <<Backslash, Backslash>>
    ELSE IF c = LF THEN <<Backslash, "n">> ELSE <<c>>

\* JSON.stringify of one character of a string
jsonEscape(c) ==
    IF c = Quote THEN <<Backslash, Quote>>
    ELSE IF c = Backslash THEN <<Backslash, Backslash>>
    ELSE IF c = LF THEN <<Backslash, "n">> ELSE <<c>>

\* every character escaped in its place; the text is taken by halves, which
\* keeps the evaluation of a long line shallow
RECURSIVE jsonEscapeAll(_)
jsonEscapeAll(s) ==
    IF s = <<>> THEN <<>>
    ELSE IF Len(s) = 1 THEN jsonEscape(s[1])
    ELSE jsonEscapeAll(SubSeq(s, 1, Len(s) \div 2))
             \o jsonEscapeAll(SubSeq(s, Len(s) \div 2 + 1, Len(s)))

\* JSON.stringify of a string
jsonString(s) == <<Quote>> \o jsonEscapeAll(s) \o <<Quote>>

\* JSON.stringify(notebook, null, 2), line by line of the cells' sources
stringifyLines(lines) ==
    SubSeq([k \in 1..Len(lines) |->
               [cell |-> lines[k].cell,
                text |-> jsonString(lines[k].prefix \o lines[k].value \o lines[k].suffix)]],
           1, Len(lines))

\* generateNotebookContent(huntData) of the copy script
generateNotebookContent(script, huntData) ==
    stringifyLines(IF script = "part_004"
                   THEN templateLines004(huntData, Or(huntData.title, Chars("Threat Hunting Notebook")))
                   ELSE templateLines003(huntData, Or(huntData.title, Chars("Threat Hunting Notebook"))))

\* Records a notebook is asked for: every optional field present or absent,
\* texts with a double quote, a backslash and a line feed
NotebookRecord(title, tactic, notes, tags, why, references) ==
    [id |-> Chars("B002"), category |-> "Embers", title |-> title, tactic |-> tactic,
     notes |-> notes, tags |-> tags, submitter |-> undefined, why |-> why,
     references |-> references]

NotebookTitles == {Chars("RMM ") \o <<Quote>> \o Chars("gcapi.dll") \o <<Quote>>,
                   Chars("C:") \o <<Backslash>> \o Chars("n")}
NotebookTactics == {Chars("Persistence, Execution"), undefined}
NotebookNotes == {Chars("Signed"), undefined}
NotebookTags == {<<Chars("baseline"), Chars("findings")>>, undefinedList}
NotebookWhys == {Chars("- seen") \o <<LF>> \o Chars("- twice"), undefined}
NotebookReferences == {Chars("https://attack.mitre.org"), undefined}
NotebookPool ==
    {NotebookRecord(title, tactic, notes, tags, why, references) :
         title \in NotebookTitles, tactic \in NotebookTactics, notes \in NotebookNotes,
         tags \in NotebookTags, why \in NotebookWhys, references \in NotebookReferences}

NotebookInit ==
    /\ HUNTS_DATA = <<>>
    /\ loadedSnapshot = HUNTS_DATA
    /\ AppIdle
    /\ ChatIdle
    /\ SortIdle
    /\ MatchIdle
    /\ UniqueIdle
    /\ SearchIdle
    /\ ModalIdle
    /\ BootIdle
    /\ notebookArg \in [hunt : NotebookPool, script : {"part_003", "part_004"}]
    /\ pendingHuntData = NotCalled
    /\ notebookCall = NotCalled
    /\ ClickIdle
    /\ ResizeIdle

\* generateNotebook up to its await: const huntData is built from the record
GenerateNotebookHuntData ==
    /\ ~pendingHuntData.done
    /\ pendingHuntData' = Returned(notebookHuntData(notebookArg.hunt))
    /\ UNCHANGED <<HUNTS_DATA, loadedSnapshot, appVars, chatVars, sortVars, matchVars, uniqueVars,
                   searchVars, modalVars, bootVars, notebookArg, notebookCall, clickVars,
                   resizeVars>>

\* generateNotebook after the delay: generateNotebookContent(huntData)
CallGenerateNotebookContent ==
    /\ pendingHuntData.done
    /\ ~notebookCall.done
    /\ notebookCall' = Returned(generateNotebookContent(notebookArg.script, pendingHuntData.value))
    /\ UNCHANGED <<HUNTS_DATA, loadedSnapshot, appVars, chatVars, sortVars, matchVars, uniqueVars,
                   searchVars, modalVars, bootVars, notebookArg, pendingHuntData, clickVars,
                   resizeVars>>

NotebookNext ==
    \/ GenerateNotebookHuntData
    \/ CallGenerateNotebookContent

SpecNotebook == NotebookInit /\ [][NotebookNext]_vars

(***************************************************************************)
(* The page load: the DOMContentLoaded listeners of the two components     *)
(***************************************************************************)
BootEvent(component, event) == [component |-> component, event |-> event]

\* populateDropdown for both selects, written by the constructor
Populated(tacticValues, tagValues) ==
    /\ tacticOptions' = tacticValues.result
    /\ tagOptions' = tagValues.result
    /\ searchCache' = tagValues.cache

PopulatedAfterTactics(tacticValues) ==
    Populated(tacticValues, getUniqueValues(tacticValues.cache, HUNTS_DATA, "tags"))

\* new HearthApp() with HUNTS_DATA defined: initializeDropdowns, then the
\* first filterAndSortHunts
NewHearthApp ==
    /\ PopulatedAfterTactics(getUniqueValues(searchCache, HUNTS_DATA, "tactic"))
    /\ Refresh(searchInput, categoryFilter, tacticFilter, tagFilter, sortHuntsSelect)
    /\ UNCHANGED <<searchInput, categoryFilter, tacticFilter, tagFilter, sortHuntsSelect,
                   debouncePending>>

\* new HearthChatWidget(): init() adds the welcome message
NewHearthChatWidget ==
    /\ messages' = <<[type |-> "bot",
                      content |-> Content("Welcome to the HEARTH Hunt Assistant!", <<>>)]>>
    /\ messagesContainer' = <<MessageElement("bot",
                                Content("Welcome to the HEARTH Hunt Assistant!", <<>>))>>
    /\ UNCHANGED <<chatInput, sendButtonDisabled, isOpen, currentTypingIndicator, timers, handled>>

\* app.js, the listener runs new HearthApp(): this.huntsData = HUNTS_DATA
\* is a ReferenceError while HUNTS_DATA is not defined
hearthAppOutcome(defined) == IF defined THEN "constructed" ELSE "ReferenceError"

\* app.js: the DOMContentLoaded listener
AppDOMContentLoaded ==
    /\ "app" \notin listenersRun
    /\ listenersRun' = listenersRun \union {"app"}
    /\ bootLog' = Append(bootLog, BootEvent("app", hearthAppOutcome(dataDefined)))
    /\ IF dataDefined THEN NewHearthApp ELSE UNCHANGED <<HUNTS_DATA, appVars>>
    /\ UNCHANGED <<dataDefined, chatRetry, loadedSnapshot, chatVars, sortVars, matchVars,
                   uniqueVars, searchVars, modalVars, notebookVars,
                   clickVars, resizeVars>>

\* chat-widget.js: the DOMContentLoaded listener
ChatDOMContentLoaded ==
    /\ "chat" \notin listenersRun
    /\ listenersRun' = listenersRun \union {"chat"}
    /\ IF dataDefined
       THEN /\ NewHearthChatWidget
            /\ bootLog' = Append(bootLog, BootEvent("chat", "constructed"))
            /\ UNCHANGED chatRetry
       ELSE /\ chatRetry' = TRUE
            /\ UNCHANGED <<bootLog, chatVars>>
    /\ UNCHANGED <<HUNTS_DATA, dataDefined, loadedSnapshot, appVars, sortVars, matchVars,
                   uniqueVars, searchVars, modalVars, notebookVars,
                   clickVars, resizeVars>>

\* chat-widget.js: the timer the listener set fires after 1000 ms
ChatRetryFire ==
    /\ chatRetry
    /\ chatRetry' = FALSE
    /\ IF dataDefined
       THEN /\ NewHearthChatWidget
            /\ bootLog' = Append(bootLog, BootEvent("chat", "constructed"))
       ELSE /\ bootLog' = Append(bootLog, BootEvent("chat", "warn"))
            /\ UNCHANGED chatVars
    /\ UNCHANGED <<HUNTS_DATA, dataDefined, listenersRun, loadedSnapshot, appVars, sortVars,
                   matchVars, uniqueVars, searchVars, modalVars, notebookVars,
                   clickVars, resizeVars>>

\* hunts-data.js runs late: const HUNTS_DATA = [...]
HuntsDataDefined ==
    /\ ~dataDefined
    /\ dataDefined' = TRUE
    /\ UNCHANGED <<HUNTS_DATA, listenersRun, chatRetry, bootLog, loadedSnapshot, appVars,
                   chatVars, sortVars, matchVars, uniqueVars, searchVars, modalVars, notebookVars,
                   clickVars, resizeVars>>

BootInit ==
    /\ HUNTS_DATA \in Snapshots
    /\ loadedSnapshot = HUNTS_DATA
    /\ AppIdle
    /\ ChatIdle
    /\ SortIdle
    /\ MatchIdle
    /\ UniqueIdle
    /\ SearchIdle
    /\ ModalIdle
    /\ dataDefined \in BOOLEAN
    /\ listenersRun = {}
    /\ chatRetry = FALSE
    /\ bootLog = <<>>
    /\ NotebookIdle
    /\ ClickIdle
    /\ ResizeIdle

BootNext ==
    \/ AppDOMContentLoaded
    \/ ChatDOMContentLoaded
    \/ ChatRetryFire
    \/ HuntsDataDefined

SpecBoot == BootInit /\ [][BootNext]_vars

(***************************************************************************)
(* A hunt result of the chat clicked (chat-widget.js 444-487)              *)
(***************************************************************************)
\* typeof hearthApp !== 'undefined': the listener of app.js calls new HearthApp()
\* and binds the instance to no name, and no script declares hearthApp
hearthAppDefined == FALSE

\* showHuntInMainInterface(hunt)
showHuntInMainInterface(hunt) ==
    /\ isOpen' = FALSE
    /\ IF hearthAppDefined
       THEN /\ searchInput' = hunt.id
            /\ categoryFilter' = hunt.category
            /\ Refresh(hunt.id, hunt.category, tacticFilter, tagFilter, sortHuntsSelect)
            /\ UNCHANGED <<tacticFilter, tagFilter, sortHuntsSelect, tacticOptions,
                           tagOptions, searchCache, debouncePending>>
       ELSE UNCHANGED <<HUNTS_DATA, appVars>>
    /\ UNCHANGED <<chatInput, sendButtonDisabled, messages, messagesContainer,
                   currentTypingIndicator, timers, handled>>

\* 'click' on the k-th child of the messages container, a hunt result
ClickHuntResult(k) ==
    /\ isOpen
    /\ k \in 1..Len(messagesContainer)
    /\ messagesContainer[k].kind = "hunt"
    /\ showHuntInMainInterface(messagesContainer[k].hunt)
    /\ lastClick' = [done |-> TRUE, hunt |-> messagesContainer[k].hunt,
                     isOpen |-> isOpen', huntsGrid |-> huntsGrid']
    /\ UNCHANGED <<loadedSnapshot, sortVars, matchVars, uniqueVars, searchVars, modalVars,
                   bootVars, notebookVars, resizeVars>>

\* the frame of an action of the catalog or of the chat in the page with clicks
ClickSearchInputs == {<<>>, Chars("dll")}
ClickUtterances == {Chars("find persistence"), Chars("What hunts target execution?")}

ClickNext ==
    \/ \E value \in ClickSearchInputs : SearchInput(value) /\ UNCHANGED catalogFrame
    \/ DebounceFire /\ UNCHANGED catalogFrame
    \/ \E value \in PageCategoryValues : CategoryChange(value) /\ UNCHANGED catalogFrame
    \/ \E value \in OptionValues(tacticOptions) : TacticChange(value) /\ UNCHANGED catalogFrame
    \/ \E value \in OptionValues(tagOptions) : TagChange(value) /\ UNCHANGED catalogFrame
    \/ openChat /\ UNCHANGED chatFrame
    \/ \E value \in ClickUtterances : isOpen /\ TypeMessage(value) /\ UNCHANGED chatFrame
    \/ isOpen /\ SendMessage /\ UNCHANGED chatFrame
    \/ SomeTimerFires
    \/ \E k \in 1..Len(messagesContainer) : ClickHuntResult(k)

SpecClick == Init /\ [][ClickNext]_vars

(***************************************************************************)
(* The resizable chat widget (unnamed/part_000): its buttons and handles   *)
(***************************************************************************)
\* the viewport of the page
window == [innerWidth |-> 1280, innerHeight |-> 800]

\* n + 'px'
px(n) == NumberToString(n) \o Chars("px")

\* offsetWidth and offsetHeight of the widget: the inline style where one is
\* set, else the size of the style sheet (the one originalDimensions starts with)
offsetWidth(w) ==
    IF w.style.width = <<>> THEN 350
    ELSE IF w.style.width = Chars("calc(100vw - 40px)") THEN window.innerWidth - 40
    ELSE parseInt(w.style.width).n
offsetHeight(w) ==
    IF w.style.height = <<>> THEN 500
    ELSE IF w.style.height = Chars("calc(100vh - 40px)") THEN window.innerHeight - 40
    ELSE parseInt(w.style.height).n

\* toggleMaximize()
toggleMaximize(w) ==
    IF w.isMaximized
    THEN [w EXCEPT !.style = [width |-> px(w.originalDimensions.width),
                              height |-> px(w.originalDimensions.height),
                              right |-> px(w.originalDimensions.right),
                              bottom |-> px(w.originalDimensions.bottom),
                              left |-> Chars("auto"),
                              top |-> Chars("auto")],
                   !.maximizeBtn = [innerHTML |-> WhiteSquare, title |-> "Maximize"],
                   !.isMaximized = FALSE]
    ELSE [w EXCEPT !.originalDimensions =
                       [width |-> offsetWidth(w),
                        height |-> offsetHeight(w),
                        right |-> parseInt(Or(w.style.right, Chars("20px"))).n,
                        bottom |-> parseInt(Or(w.style.bottom, Chars("20px"))).n],
                   !.style = [width |-> Chars("calc(100vw - 40px)"),
                              height |-> Chars("calc(100vh - 40px)"),
                              right |-> Chars("20px"),
                              bottom |-> Chars("20px"),
                              left |-> Chars("20px"),
                              top |-> Chars("20px")],
                   !.maximizeBtn = [innerHTML |-> TwoJoinedSquares, title |-> "Restore"],
                   !.isMaximized = TRUE]

\* minimizeChat() after its first statement
minimizeToHeader(w) ==
    [w EXCEPT !.style.height = Chars("60px"),
              !.messagesDisplay = "none",
              !.inputDisplay = "none",
              !.minimizeBtn = [innerHTML |-> PlusSign, title |-> "Restore",
                               onclick |-> "restoreChat"]]

\* minimizeChat()
minimizeChat(w) == minimizeToHeader(IF w.isMaximized THEN toggleMaximize(w) ELSE w)

\* restoreChat()
restoreChat(w) ==
    [w EXCEPT !.style.height = px(w.originalDimensions.height),
              !.messagesDisplay = "flex",
              !.inputDisplay = "flex",
              !.minimizeBtn = [innerHTML |-> MinusSign, title |-> "Minimize",
                               onclick |-> "minimizeChat"]]

\* the onclick handler of the minimize button, called with the value it has
\* when its turn comes
onclick(w) ==
    CASE w.minimizeBtn.onclick = "restoreChat" -> restoreChat(w)
      [] w.minimizeBtn.onclick = "minimizeChat" -> minimizeChat(w)
      [] OTHER -> w

\* 'click' on the minimize button. The listener setupEventListeners added
\* runs first, and it stays for every click; the onclick handler is a
\* listener from the moment it is first set, which is during the first
\* click, so that it runs after the added listener from the second click on.
minimizeBtnClick(w) ==
    IF w.minimizeBtn.onclick = "null" THEN minimizeChat(w) ELSE onclick(minimizeChat(w))

\* Math.max, Math.min
MathMax(a, b) == IF a >= b THEN a ELSE b
MathMin(a, b) == IF a <= b THEN a ELSE b

\* openChat(), closeChat(), toggleChat()
openResizable(w) == [w EXCEPT !.isOpen = TRUE]
closeResizable(w) == [w EXCEPT !.isOpen = FALSE]
toggleChat(w) == IF w.isOpen THEN closeResizable(w) ELSE openResizable(w)

\* the 'keydown' listener of the document
keydown(w, key) == IF key = "Escape" /\ w.isOpen THEN closeResizable(w) ELSE w

\* getCursorForDirection(direction)
getCursorForDirection(resizeDirection) ==
    CASE resizeDirection = "right" -> "ew-resize"
      [] resizeDirection = "bottom" -> "ns-resize"
      [] resizeDirection = "corner" -> "nw-resize"
      [] OTHER -> "default"

\* a mouse event: the handle it is on (for mousedown) and the pointer's place
MouseEvent(target, point) == [target |-> target, clientX |-> point[1], clientY |-> point[2]]

\* startResize(e): e.target is one of the three handles
startResize(w, e) ==
    [w EXCEPT !.isResizing = TRUE,
              !.resizeDirection = e.target,
              !.startX = e.clientX,
              !.startY = e.clientY,
              !.startWidth = offsetWidth(w),
              !.startHeight = offsetHeight(w),
              !.chatResizing = TRUE,
              !.body = [cursor |-> getCursorForDirection(e.target), userSelect |-> "none"]]

\* doResize: newWidth and newHeight before the constraints
newWidth(w, e) ==
    IF w.resizeDirection \in {"right", "corner"}
    THEN w.startWidth + (e.clientX - w.startX) ELSE w.startWidth
newHeight(w, e) ==
    IF w.resizeDirection \in {"bottom", "corner"}
    THEN w.startHeight + (e.clientY - w.startY) ELSE w.startHeight

\* doResize: the constraints
minWidth == 300
minHeight == 300
maxWidth == MathMin(800, window.innerWidth - 40)
\* window.innerHeight * 0.8, a whole number for the viewport of the model
maxHeight == MathMin((window.innerHeight * 8) \div 10, window.innerHeight - 40)

\* doResize(e)
doResize(w, e) ==
    IF ~w.isResizing THEN w
    ELSE [w EXCEPT !.style.width = px(MathMax(minWidth, MathMin(newWidth(w, e), maxWidth))),
                   !.style.height = px(MathMax(minHeight, MathMin(newHeight(w, e), maxHeight)))]

\* stopResize()
stopResize(w) ==
    IF ~w.isResizing THEN w
    ELSE [w EXCEPT !.isResizing = FALSE,
                   !.resizeDirection = "null",
                   !.chatResizing = FALSE,
                   !.body = [cursor |-> "", userSelect |-> ""],
                   !.originalDimensions.width = offsetWidth(w),
                   !.originalDimensions.height = offsetHeight(w)]

\* the frame of an event of the resizable widget
resizeFrame == <<HUNTS_DATA, loadedSnapshot, appVars, chatVars, sortVars, matchVars, uniqueVars,
                 searchVars, modalVars, bootVars, notebookVars, clickVars>>

\* an event of the widget is handled: the widget it leaves, and its name
WidgetClick(button, w) ==
    /\ Len(widgetEvents) < MaxClicks
    /\ resizable' = w
    /\ widgetEvents' = Append(widgetEvents, button)
    /\ UNCHANGED resizeFrame

\* The listeners of setupEventListeners and setupResizeHandlers test nothing
\* before they call their method: none depends on the widget being open.
\* 'click' on the toggle button
ToggleClick == WidgetClick("toggle", toggleChat(resizable))
\* 'click' on the close button of the header
CloseClick == WidgetClick("close", closeResizable(resizable))
\* 'keydown' on the document with the Escape key
EscapeKey == WidgetClick("escape", keydown(resizable, "Escape"))
MinimizeClick == WidgetClick("minimize", minimizeBtnClick(resizable))
MaximizeClick == WidgetClick("maximize", toggleMaximize(resizable))

\* the handles of the widget, by the class that names their direction
ResizeHandles == {"right", "bottom", "corner"}
\* where the pointer is pressed, and where it is moved to
MouseDownPoints == {<<900, 300>>}
MouseMovePoints == {<<1000, 350>>, <<700, 300>>, <<90, 120>>}

\* 'mousedown' on a handle
MouseDown(handle, point) == WidgetClick("mousedown", startResize(resizable, MouseEvent(handle, point)))
\* 'mousemove' on the document
MouseMove(point) == WidgetClick("mousemove", doResize(resizable, MouseEvent("document", point)))
\* 'mouseup' on the document
MouseUp == WidgetClick("mouseup", stopResize(resizable))

ResizeInit ==
    /\ HUNTS_DATA = <<>>
    /\ loadedSnapshot = HUNTS_DATA
    /\ AppIdle
    /\ ChatIdle
    /\ SortIdle
    /\ MatchIdle
    /\ UniqueIdle
    /\ OtherIdle

ResizeNext ==
    \/ ToggleClick
    \/ CloseClick
    \/ EscapeKey
    \/ MinimizeClick
    \/ MaximizeClick
    \/ \E handle \in ResizeHandles, point \in MouseDownPoints : MouseDown(handle, point)
    \/ \E point \in MouseMovePoints : MouseMove(point)
    \/ MouseUp

SpecResize == ResizeInit /\ [][ResizeNext]_vars

(***************************************************************************)
(* Claims about sortHunts (checked under SpecSort)                         *)
(***************************************************************************)
\* Vocabulary of the claims, stated without the program's own helpers
Reverse(s) == [i \in 1..Len(s) |-> s[Len(s) + 1 - i]]
LetterRank(id) == IndexOf(UpperCase, id[1])
RECURSIVE DecimalValue(_)
DecimalValue(ds) ==
    IF ds = <<>> THEN 0
    ELSE 10 * DecimalValue(SubSeq(ds, 1, Len(ds) - 1)) + (IndexOf(Digits, ds[Len(ds)]) - 1)
AllDigits(ds) == ds # <<>> /\ \A i \in 1..Len(ds) : IndexOf(Digits, ds[i]) > 0
\* a letter followed by one or more digits
WellFormedId(id) == Len(id) >= 2 /\ IndexOf(UpperCase, id[1]) > 0 /\ AllDigits(Tail(id))
SuffixParses(id) == Len(id) >= 2 /\ IndexOf(Digits, id[2]) > 0
\* (letter, number) of a precedes or equals that of b
KeyLeq(a, b) ==
    \/ LetterRank(a) < LetterRank(b)
    \/ LetterRank(a) = LetterRank(b) /\ DecimalValue(Tail(a)) <= DecimalValue(Tail(b))
IsPermutation(s, t) ==
    /\ Len(s) = Len(t)
    /\ \A i \in 1..Len(s) :
          Cardinality({j \in 1..Len(s) : s[j] = s[i]}) = Cardinality({j \in 1..Len(t) : t[j] = s[i]})
Position(s, id) == CHOOSE i \in 1..Len(s) : s[i].id = id
HasId(s, id) == \E i \in 1..Len(s) : s[i].id = id
AllWellFormed(s) == \A i \in 1..Len(s) : WellFormedId(s[i].id)
DistinctIds(s) == \A i, j \in 1..Len(s) : i # j => s[i].id # s[j].id

\* C5: for ids made of a letter and digits, sortHunts returns a permutation of
\* its input that is ordered by letter and then by the number the digits
\* denote when ascending (9 before 10), and by the reverse of both levels
\* together when descending.
C5_SortedByLetterThenNumber ==
    AllWellFormed(sortArg) =>
        /\ sortCalls["id-asc"].done =>
              LET out == sortCalls["id-asc"].value
              IN  /\ IsPermutation(sortArg, out)
                  /\ \A i, j \in 1..Len(out) : i < j => KeyLeq(out[i].id, out[j].id)
        /\ sortCalls["id-desc"].done =>
              LET out == sortCalls["id-desc"].value
              IN  /\ IsPermutation(sortArg, out)
                  /\ \A i, j \in 1..Len(out) : i < j => KeyLeq(out[j].id, out[i].id)

\* H10 is given before H9 and B2 last; ascending puts B2, H9, H10 in that
\* order and descending the other way round
C5_Witness ==
    /\ sortArg = << CHOOSE h \in SortPool : h.id = <<"H","1","0">>,
                    CHOOSE h \in SortPool : h.id = <<"H","9">>,
                    CHOOSE h \in SortPool : h.id = <<"B","2">> >>
    /\ sortCalls["id-asc"].done /\ sortCalls["id-desc"].done
    /\ Position(sortCalls["id-asc"].value, <<"H","9">>) = 2
    /\ Position(sortCalls["id-asc"].value, <<"H","1","0">>) = 3
    /\ Position(sortCalls["id-desc"].value, <<"H","1","0">>) = 1
    /\ Position(sortCalls["id-desc"].value, <<"B","2">>) = 3

\* C6 (as claimed): for pairwise distinct ids the descending result is the
\* reverse of the ascending result.
C6_DescendingIsReverseOfAscending ==
    (DistinctIds(sortArg) /\ sortCalls["id-asc"].done /\ sortCalls["id-desc"].done) =>
        sortCalls["id-desc"].value = Reverse(sortCalls["id-asc"].value)

\* C7 (as claimed): sorting what sortHunts returned, in the same direction,
\* returns the same array.
C7_SortIdempotent ==
    \A v \in SortValues :
        sortCalls[v \o " again"].done => sortCalls[v \o " again"].value = sortCalls[v].value

\* C8 (as claimed): ascending, a record whose suffix does not parse comes
\* after every record of the same letter whose suffix parses.
C8_UnparsableSuffixSortsLast ==
    sortCalls["id-asc"].done =>
        LET out == sortCalls["id-asc"].value
        IN  \A i, j \in 1..Len(out) :
                (/\ out[i].id[1] = out[j].id[1]
                 /\ ~SuffixParses(out[i].id)
                 /\ SuffixParses(out[j].id)) => j < i

(***************************************************************************)
(* Claims about the catalog filter (checked under SpecCatalog)             *)
(***************************************************************************)
\* Vocabulary of the claims, stated without the program's own helpers
Range(s) == {s[i] : i \in 1..Len(s)}
NoDuplicates(s) == \A i, j \in 1..Len(s) : i # j => s[i] # s[j]
SmallLetter == [c \in {UpperCase[i] : i \in 1..26} |->
                    LowerCase[CHOOSE i \in 1..26 : UpperCase[i] = c]]
Lower(s) ==
    SubSeq([i \in 1..Len(s) |-> IF s[i] \in DOMAIN SmallLetter THEN SmallLetter[s[i]] ELSE s[i]],
           1, Len(s))
Contains(s, sub) ==
    \E i \in 1..(Len(s) - Len(sub) + 1) : \A k \in 1..Len(sub) : s[i + k - 1] = sub[k]
\* the text of a field, nothing for an absent one
TextOf(v) == IF v = undefined THEN <<>> ELSE v
RECURSIVE SpaceSeparated(_)
SpaceSeparated(texts) ==
    IF texts = <<>> THEN <<>>
    ELSE IF Len(texts) = 1 THEN texts[1]
    ELSE texts[1] \o <<" ">> \o SpaceSeparated(Tail(texts))
\* id, title, tactic, notes, the tags and the submitter name, one blank between
Concatenation(r) ==
    SpaceSeparated(<<r.id, r.title, TextOf(r.tactic), TextOf(r.notes),
                     SpaceSeparated(IF r.tags = undefinedList THEN <<>> ELSE r.tags),
                     TextOf(r.submitter)>>)
\* the elements of a tactic field: the texts between two neighbouring
\* commas (or an end of the field), blanks at their ends dropped
Cuts(field) == {0, Len(field) + 1} \cup {k \in 1..Len(field) : field[k] = ","}
Stripped(text) ==
    IF \A k \in 1..Len(text) : text[k] = " " THEN <<>>
    ELSE SubSeq(text,
                CHOOSE a \in 1..Len(text) : text[a] # " " /\ \A k \in 1..(a - 1) : text[k] = " ",
                CHOOSE b \in 1..Len(text) : text[b] # " " /\ \A k \in (b + 1)..Len(text) : text[k] = " ")
TacticNames(field) ==
    {Stripped(SubSeq(field, c[1] + 1, c[2] - 1)) :
        c \in {d \in Cuts(field) \X Cuts(field) :
                  d[1] < d[2] /\ \A k \in Cuts(field) : ~(d[1] < k /\ k < d[2])}}

\* the four criteria as the specification states them
SearchHolds(r, s) == s = <<>> \/ Contains(Lower(Concatenation(r)), Lower(s))
CategoryHolds(r, category) == category = "" \/ r.category = category
TacticHolds(r, tactic) ==
    tactic = <<>> \/ (r.tactic # undefined /\ tactic \in TacticNames(r.tactic))
TagHolds(r, tag) == tag = <<>> \/ (r.tags # undefinedList /\ tag \in Range(r.tags))

\* the grid shows the result for the present values of the controls
ViewIsCurrent == ~debouncePending

\* C2: with a non-empty search string and category, tactic and tag unset, the
\* records filterAndSortHunts produces are exactly the records of the snapshot
\* whose lowercased concatenation of id, title, tactic, notes, tags and
\* submitter name contains the lowercased string; each is a record of the
\* snapshot and none appears twice.
C2_SearchResultIsSubstringMatches ==
    (/\ ViewIsCurrent
     /\ searchInput # <<>>
     /\ categoryFilter = "" /\ tacticFilter = <<>> /\ tagFilter = <<>>) =>
        /\ Range(huntsGrid) =
               {r \in Range(HUNTS_DATA) : Contains(Lower(Concatenation(r)), Lower(searchInput))}
        /\ Range(filteredHunts) = Range(huntsGrid)
        /\ Range(huntsGrid) \subseteq Range(HUNTS_DATA)
        /\ NoDuplicates(huntsGrid)
        /\ NoDuplicates(filteredHunts)

\* 'ann' is searched in a snapshot of two records, one of which has it in the
\* submitter name only: that record alone is shown
C2_Witness ==
    /\ ViewIsCurrent
    /\ searchInput = Chars("ann")
    /\ categoryFilter = "" /\ tacticFilter = <<>> /\ tagFilter = <<>>
    /\ HUNTS_DATA = <<B002, H009>>
    /\ huntsGrid = <<H009>>

\* C3: filterAndSortHunts returns exactly the records of the snapshot that
\* satisfy the search, category, tactic and tag criteria all at once; an empty
\* selection excludes nothing, so with all four empty the result is the whole
\* snapshot.
C3_FourCriteriaConjoined ==
    ViewIsCurrent =>
        /\ filteredHunts =
               SelectSeq(HUNTS_DATA, LAMBDA r :
                   /\ SearchHolds(r, searchInput)
                   /\ CategoryHolds(r, categoryFilter)
                   /\ TacticHolds(r, tacticFilter)
                   /\ TagHolds(r, tagFilter))
        /\ IsPermutation(filteredHunts, huntsGrid)
        /\ (/\ searchInput = <<>> /\ categoryFilter = ""
            /\ tacticFilter = <<>> /\ tagFilter = <<>>) => IsPermutation(HUNTS_DATA, huntsGrid)

\* all four controls are set and one of two records passes all of them
C3_Witness ==
    /\ ViewIsCurrent
    /\ searchInput = Chars("PERSIST")
    /\ categoryFilter = "Embers"
    /\ tacticFilter = Chars("Persistence")
    /\ tagFilter = Chars("baseline")
    /\ HUNTS_DATA = <<H010, B002>>
    /\ huntsGrid = <<B002>>

\* C9: with only a category selected, a record of the snapshot is shown if
\* its category is the selected one and is not shown if the selection is one
\* of the other two categories.
C9_CategoryFilterIsEquality ==
    (/\ ViewIsCurrent
     /\ categoryFilter \in {"Flames", "Embers", "Alchemy"}
     /\ searchInput = <<>> /\ tacticFilter = <<>> /\ tagFilter = <<>>) =>
        \A i \in 1..Len(HUNTS_DATA) :
            /\ HUNTS_DATA[i].category = categoryFilter => HUNTS_DATA[i] \in Range(huntsGrid)
            /\ HUNTS_DATA[i].category # categoryFilter => HUNTS_DATA[i] \notin Range(huntsGrid)

\* Embers is selected over a Flames and an Embers record
C9_Witness ==
    /\ ViewIsCurrent
    /\ categoryFilter = "Embers"
    /\ searchInput = <<>> /\ tacticFilter = <<>> /\ tagFilter = <<>>
    /\ HUNTS_DATA = <<H009, B002>>
    /\ huntsGrid = <<B002>>

(***************************************************************************)
(* Claim about matchesTactic (checked under SpecMatch)                     *)
(***************************************************************************)
\* C10: for a non-empty selection t, matchesTactic(r, t) holds exactly when t
\* equals one of the elements of r.tactic split on commas and trimmed, and it
\* does not hold when r has no tactic.
C10_TacticMatchIsWholeElement ==
    (matchCall.done /\ matchArg.tactic # <<>>) =>
        /\ ToBoolean(matchCall.value) <=>
               (/\ matchArg.hunt.tactic # undefined
                /\ matchArg.tactic \in TacticNames(matchArg.hunt.tactic))
        /\ matchArg.hunt.tactic = undefined => ~ToBoolean(matchCall.value)

\* 'Remote Execution' is an element of 'Command and Control,Remote Execution '
\* once split and trimmed, and matchesTactic answered true
C10_Witness ==
    /\ matchCall.done
    /\ matchArg.tactic = Chars("Remote Execution")
    /\ matchArg.hunt.tactic = Chars("Command and Control,Remote Execution ")
    /\ matchCall.value = "true"

(***************************************************************************)
(* Claim about processMessage (checked under SpecChat)                     *)
(***************************************************************************)
\* the five keyword predicates in the order of the specification
IntentOrder == <<"handleHuntSearch", "handleTacticExploration", "handlePeakFrameworkGuidance",
                 "handleStatsQuery", "handleHelpQuery">>
IntentHolds(k, lowerMessage) ==
    CASE k = 1 -> isSearchQuery(lowerMessage)
      [] k = 2 -> isTacticQuery(lowerMessage)
      [] k = 3 -> isPeakFrameworkQuery(lowerMessage)
      [] k = 4 -> isStatsQuery(lowerMessage)
      [] k = 5 -> isHelpQuery(lowerMessage)
FirstIntent(lowerMessage) ==
    IF \E k \in 1..5 : IntentHolds(k, lowerMessage)
    THEN IntentOrder[CHOOSE k \in 1..5 :
             IntentHolds(k, lowerMessage) /\ \A j \in 1..(k - 1) : ~IntentHolds(j, lowerMessage)]
    ELSE "handleGeneralQuery"
UserMessages == {i \in 1..Len(messages) : messages[i].type = "user"}

\* C1: every processed message had one handler called for it, the first of
\* search, tactic, framework, statistics, help whose keyword predicate holds
\* on the lowercased message, the fallback when none holds; 'show me
\* persistence hunts' goes to the search handler.
C1_FirstMatchingIntentWins ==
    /\ Len(handled) + Len(timers) = Cardinality(UserMessages)
    /\ \A i \in 1..Len(handled) :
           /\ handled[i].handler = FirstIntent(Lower(handled[i].message))
           /\ handled[i].message = Chars("Show me persistence hunts") =>
                  handled[i].handler = "handleHuntSearch"

\* 'Show me persistence hunts', which holds a search phrase and a tactic
\* keyword, was processed by the search handler
C1_Witness ==
    \E i \in 1..Len(handled) :
        /\ handled[i].message = Chars("Show me persistence hunts")
        /\ isSearchQuery(Lower(handled[i].message))
        /\ isTacticQuery(Lower(handled[i].message))
        /\ handled[i].handler = "handleHuntSearch"

(***************************************************************************)
(* Claim about the snapshot (checked under Spec)                           *)
(***************************************************************************)
\* C4: after any sequence of catalog and chat operations HUNTS_DATA holds the
\* records it held at page load, in the same order.
C4_SnapshotAsLoaded == HUNTS_DATA = loadedSnapshot

\* the grid shows both records in the reverse of the snapshot order, and the
\* chat search handler listed them by score, again in the reverse order
C4_Witness ==
    /\ HUNTS_DATA = <<B002, H009>>
    /\ huntsGrid = <<H009, B002>>
    /\ \E i \in 1..Len(handled) : handled[i].handler = "handleHuntSearch" /\ ~handled[i].threw
    /\ \E i \in 1..(Len(messagesContainer) - 1) :
           /\ messagesContainer[i].kind = "hunt" /\ messagesContainer[i].hunt = H009
           /\ messagesContainer[i + 1].kind = "hunt" /\ messagesContainer[i + 1].hunt = B002

(***************************************************************************)
(* Claim about getUniqueValues (checked under SpecUnique)                  *)
(***************************************************************************)
\* a precedes b in the order of the code units, b being no prefix of a
CodeUnitBefore(a, b) ==
    \E k \in 1..(Len(b)) :
        /\ \A j \in 1..(k - 1) : j <= Len(a) /\ a[j] = b[j]
        /\ (k > Len(a) \/ (k - 1 < Len(a) /\ IndexOf(AsciiOrder, a[k]) < IndexOf(AsciiOrder, b[k])))
\* s lists the elements of S, each once, in ascending order
ListsSorted(s, S) ==
    /\ Range(s) = S
    /\ \A i, j \in 1..Len(s) : i < j => CodeUnitBefore(s[i], s[j])
\* the tactic names, and the tags, that occur in a set of records
NamesOf(records, fieldName) ==
    IF fieldName = "tactic"
    THEN UNION {TacticNames(r.tactic) : r \in {q \in records : q.tactic # undefined}} \ {<<>>}
    ELSE UNION {Range(r.tags) : r \in {q \in records : q.tags # undefinedList}} \ {<<>>}
OptionsOf(fieldName) == IF fieldName = "tactic" THEN tacticOptions ELSE tagOptions

\* C11: the tactic and the tag list are the duplicate-free ascending lists of
\* the trimmed tactic names and of the tags of the set of records loaded,
\* whatever the order of the records and the state of the controls; a later
\* call of getUniqueValues returns the list the first call computed.
C11_UniqueValuesSortedAndCached ==
    /\ ListsSorted(tacticOptions, NamesOf(Range(loadedSnapshot), "tactic"))
    /\ ListsSorted(tagOptions, NamesOf(Range(loadedSnapshot), "tags"))
    /\ uniqueCall.done =>
           /\ uniqueCall.value = OptionsOf(uniqueCall.fieldName)
           /\ ListsSorted(uniqueCall.value, NamesOf(Range(loadedSnapshot), uniqueCall.fieldName))

\* the tactic list is asked for again while a search hides one of two records
\* whose tactics repeat each other: it comes back deduplicated and sorted
C11_Witness ==
    /\ uniqueCall.done /\ uniqueCall.fieldName = "tactic"
    /\ HUNTS_DATA = <<D003, B002>>
    /\ searchInput = Chars("dll") /\ ~debouncePending
    /\ huntsGrid = <<D003>>
    /\ uniqueCall.value = <<Chars("Execution"), Chars("Persistence"), Chars("persistence")>>

(***************************************************************************)
(* Claim about the conversation history (checked under SpecTurns)          *)
(***************************************************************************)
\* the handler the classification gives a text that opens a conversation
HandlerOfText(text) == intentHandler(toLowerCase(text))

\* C12: the handler chosen for a message depends on its text only: two
\* processed messages of the same text, whatever was said before each of
\* them, were given to the same handler, the one the text is given when it
\* opens a conversation.
C12_HandlerDependsOnTextOnly ==
    /\ \A i, j \in 1..Len(handled) :
           handled[i].message = handled[j].message => handled[i].handler = handled[j].handler
    /\ \A i \in 1..Len(handled) : handled[i].handler = HandlerOfText(handled[i].message)

\* 'stats' opened the conversation and was sent again after a search turn;
\* both times it went to the statistics handler
C12_Witness ==
    /\ Len(handled) = 3
    /\ handled[1].message = Chars("stats")
    /\ handled[2].message = Chars("find execution")
    /\ handled[2].handler = "handleHuntSearch"
    /\ handled[3].message = Chars("stats")
    /\ handled[3].handler = "handleStatsQuery"

(***************************************************************************)
(* Claims about searchHunts (checked under SpecSearch)                     *)
(***************************************************************************)
\* C13 (as claimed): when searchHunts returns, the records it returns are the
\* records of the snapshot that the catalog's search criterion holds for,
\* the query being the search string.
C13_ChatSearchMatchesCatalogSearch ==
    (searchCall.done /\ ~searchCall.threw) =>
        Range(searchCall.result) = {r \in Range(HUNTS_DATA) : SearchHolds(r, searchArg)}

\* the title of r contains the query, case ignored
TitleHas(r) == Contains(Lower(r.title), Lower(searchArg))

\* C16 (as claimed): searchHunts returns the matching records, those whose
\* title contains the query before the others, each of the two groups in
\* snapshot order.
C16_TitleMatchesFirstStable ==
    searchCall.done =>
        /\ ~searchCall.threw
        /\ NoDuplicates(searchCall.result)
        /\ searchCall.result =
               SelectSeq(HUNTS_DATA, LAMBDA r : r \in Range(searchCall.result) /\ TitleHas(r))
               \o SelectSeq(HUNTS_DATA, LAMBDA r : r \in Range(searchCall.result) /\ ~TitleHas(r))

(***************************************************************************)
(* Claims about the chat handlers (checked under SpecChat)                 *)
(***************************************************************************)
\* the snapshot with every absent tactic and tags field made empty
Emptied(data) ==
    [k \in 1..Len(data) |->
        [data[k] EXCEPT !.tactic = IF @ = undefined THEN <<>> ELSE @,
                        !.tags = IF @ = undefinedList THEN <<>> ELSE @]]
LacksTacticOrTags(data) ==
    \E k \in 1..Len(data) : data[k].tactic = undefined \/ data[k].tags = undefinedList
DataHandlers == {"handleHuntSearch", "handleTacticExploration", "handleStatsQuery",
                 "handleGeneralQuery"}
\* what the assistant appended after the user's message
Response == SubSeq(messagesContainer, 3, Len(messagesContainer))

\* C14 (as claimed): over a snapshot with a record that lacks tactic or tags,
\* the search, tactic, statistics and fallback handlers complete without
\* throwing and answer as they would if the absent fields were empty.
C14_AbsentFieldsTreatedAsEmpty ==
    (LacksTacticOrTags(HUNTS_DATA) /\ Len(handled) = 1 /\ handled[1].handler \in DataHandlers) =>
        /\ ~handled[1].threw
        /\ \E randomIndex \in 1..Len(suggestions) :
               Response = CallHandler(handled[1].handler, Emptied(HUNTS_DATA), handled[1].message,
                                      randomIndex).elements

\* the number of records of the snapshot in a category
InCategory(category) ==
    Cardinality({k \in 1..Len(HUNTS_DATA) : HUNTS_DATA[k].category = category})

\* C15 (as claimed): the statistics handler answers every statistics question
\* with the number of records of the snapshot as the total and, for Flames,
\* Embers and Alchemy, the number of records of that category; the three sum
\* to the total when every record is in one of them.
C15_StatsCountsByCategory ==
    (Len(handled) = 1 /\ handled[1].handler = "handleStatsQuery") =>
        /\ ~handled[1].threw
        /\ Len(Response) = 1
        /\ Response[1].kind = "message"
        /\ Len(Response[1].content.args) >= 4
        /\ DecimalValue(Response[1].content.args[1]) = Len(HUNTS_DATA)
        /\ DecimalValue(Response[1].content.args[2]) = InCategory("Flames")
        /\ DecimalValue(Response[1].content.args[3]) = InCategory("Embers")
        /\ DecimalValue(Response[1].content.args[4]) = InCategory("Alchemy")
        /\ InCategory("Flames") + InCategory("Embers") + InCategory("Alchemy") = Len(HUNTS_DATA)

\* the first of the twelve names, in the order of the list, that the
\* lowercased message contains; 'unknown' when it contains none
FirstListedTactic(message) ==
    IF \E k \in 1..Len(tactics) : Contains(Lower(message), tactics[k])
    THEN tactics[CHOOSE k \in 1..Len(tactics) :
             /\ Contains(Lower(message), tactics[k])
             /\ \A j \in 1..(k - 1) : ~Contains(Lower(message), tactics[j])]
    ELSE Chars("unknown")
\* the records whose tactic field contains the name, case ignored
Targeting(name) ==
    SelectSeq(HUNTS_DATA, LAMBDA r : r.tactic # undefined /\ Contains(Lower(r.tactic), name))
\* the records the response displays, in order
Displayed == [k \in 1..Len(SelectSeq(Response, LAMBDA e : e.kind = "hunt")) |->
                 SelectSeq(Response, LAMBDA e : e.kind = "hunt")[k].hunt]

\* C17 (as claimed): the tactic handler completes, names the first listed
\* tactic the message contains ('unknown' when none), and displays the first
\* three, in snapshot order, of the records whose tactic contains that name.
C17_FirstListedTacticUpToThree ==
    (Len(handled) = 1 /\ handled[1].handler = "handleTacticExploration") =>
        /\ ~handled[1].threw
        /\ Len(Response) >= 1
        /\ Response[1].kind = "message"
        /\ Response[1].content.args[Len(Response[1].content.args)]
               = FirstListedTactic(handled[1].message)
        /\ Displayed = SubSeq(Targeting(FirstListedTactic(handled[1].message)), 1,
                              IF Len(Targeting(FirstListedTactic(handled[1].message))) < 3
                              THEN Len(Targeting(FirstListedTactic(handled[1].message))) ELSE 3)

(***************************************************************************)
(* Claims about generateNotebook (checked under SpecModal)                 *)
(***************************************************************************)
\* request n asked for the notebook of an id that no record has
UnknownNotebookRequest(n) ==
    /\ modalRequests[n].kind = "notebook"
    /\ \A k \in 1..Len(HUNTS_DATA) : HUNTS_DATA[k].id # modalRequests[n].id

\* C18: a generateNotebook call for an id of no record ends in its error
\* view, which offers 'Try Again' and no download; it neither fails nor
\* waits, and the success view is never written for it.
C18_UnknownIdShowsError ==
    \A n \in 1..Len(modalRequests) :
        UnknownNotebookRequest(n) =>
            /\ modalRequests[n].outcome = "error"
            /\ \A i \in 1..Len(notebookTimers) : notebookTimers[i].request # n
            /\ modalBody.request = n =>
                   /\ modalBody.view = "error"
                   /\ modalBody.id = modalRequests[n].id
                   /\ "Try Again" \in modalBody.controls
                   /\ "Download Notebook (.ipynb)" \notin modalBody.controls

\* the details of a record were open when the notebook of X999 was asked
\* for: the modal shows the error view for X999
C18_Witness ==
    /\ Len(modalRequests) = 2
    /\ modalRequests[1].kind = "details"
    /\ UnknownNotebookRequest(2)
    /\ modalBody.request = 2
    /\ modalBody.view = "error"
    /\ modalDisplay = "block"

\* C19 (as claimed): the result of a generation never replaces the content of
\* a newer request; once no generation is waiting the modal shows the content
\* of the most recent request.
C19_StaleResultNeverShown ==
    /\ modalBody.request = Len(modalRequests)
    /\ (notebookTimers = <<>> /\ modalRequests # <<>>) =>
           /\ modalBody.id = modalRequests[Len(modalRequests)].id
           /\ modalBody.view = (CASE modalRequests[Len(modalRequests)].kind = "details" -> "details"
                                  [] OTHER -> modalRequests[Len(modalRequests)].outcome)

(***************************************************************************)
(* Claims about the page load (checked under SpecBoot)                     *)
(***************************************************************************)
Logged(component, event) ==
    {i \in 1..Len(bootLog) : bootLog[i] = BootEvent(component, event)}

\* C20 (as claimed): with HUNTS_DATA not defined at DOMContentLoaded no
\* component throws; each is constructed at most once, and once its checks
\* are over it is constructed or has logged a warning.
C20_UndefinedDataTolerated ==
    \A component \in {"app", "chat"} :
        /\ Logged(component, "ReferenceError") = {}
        /\ Cardinality(Logged(component, "constructed")) <= 1
        /\ (component \in listenersRun /\ ~chatRetry) =>
               \/ Logged(component, "constructed") # {}
               \/ Logged(component, "warn") # {}

(***************************************************************************)
(* Claims about the generated notebook (checked under SpecNotebook)        *)
(***************************************************************************)
\* the number of backslashes that stand directly before position i
BackslashesBefore(s, i) ==
    i - 1 - (CHOOSE m \in {0} \cup {j \in 1..(i - 1) : s[j] # Backslash} :
                 \A j \in {0} \cup {j \in 1..(i - 1) : s[j] # Backslash} : j <= m)

\* position i is the second character of an escape sequence
Escaped(s, i) == BackslashesBefore(s, i) % 2 = 1

\* the positions of the characters a JSON string holds, up to its closing quote
StringPositions(s) ==
    {i \in 1..Len(s) :
         /\ \A j \in 1..i : s[j] = Quote => (j = 1 \/ Escaped(s, j))
         /\ i > 1
         /\ Escaped(s, i) \/ s[i] # Backslash}

\* JSON.parse of a string: the characters at these positions, escapes undone
jsonParseAt(s, positions) ==
    [k \in 1..Cardinality(positions) |->
         LET i == CHOOSE i \in positions : Cardinality({j \in positions : j <= i}) = k
         IN IF Escaped(s, i) /\ s[i] = "n" THEN LF ELSE s[i]]

\* the text of a source line, read back from the notebook
ParsedLine(text) == SubSeq(jsonParseAt(text, StringPositions(text)), 1,
                           Cardinality(StringPositions(text)))

StartsWith(s, prefix) == Len(s) >= Len(prefix) /\ SubSeq(s, 1, Len(prefix)) = prefix

\* what the line that starts with prefix in a cell carries between prefix and suffix
ReadBack(line, prefix, suffix) == SubSeq(line, Len(prefix) + 1, Len(line) - Len(suffix))

\* the values read back from the lines of cell 1 that start with prefix
HeaderField(document, prefix, suffix) ==
    {ReadBack(ParsedLine(document[k].text), Chars(prefix), Chars(suffix) \o <<LF>>) :
         k \in {j \in 1..Len(document) :
                    /\ document[j].cell = 1
                    /\ StartsWith(ParsedLine(document[j].text), Chars(prefix))}}

\* C21: for a record with id, title and tactic, the Hunt ID, the title and
\* the tactic line read back from the generated notebook are the record's
\* id, title and tactic, character by character.
C21_HeaderFieldsRoundTrip ==
    (notebookCall.done /\ Truthy(notebookArg.hunt.title) /\ Truthy(notebookArg.hunt.tactic)) =>
        IF notebookArg.script = "part_004"
        THEN /\ HeaderField(notebookCall.value, "## Hunt ID: ", "") = {notebookArg.hunt.id}
             /\ \E k \in 1..Len(notebookCall.value) :
                    /\ notebookCall.value[k].cell = 1
                    /\ ParsedLine(notebookCall.value[k].text) =
                           Chars("## Hunt Title: ") \o notebookArg.hunt.title
             /\ \E k \in 1..Len(notebookCall.value) :
                    ParsedLine(notebookCall.value[k].text) =
                        Chars("  - ") \o <<Backtick>> \o notebookArg.hunt.tactic \o <<Backtick, LF>>
        ELSE /\ HeaderField(notebookCall.value, "**Hunt ID:** ", "  ") = {notebookArg.hunt.id}
             /\ HeaderField(notebookCall.value, "# Threat Hunting Notebook: ", "") =
                    {notebookArg.hunt.title}
             /\ HeaderField(notebookCall.value, "**Tactic:** ", "  ") = {notebookArg.hunt.tactic}

\* a notebook was generated for a record whose title holds double quotes
C21_Witness ==
    /\ notebookCall.done
    /\ Truthy(notebookArg.hunt.tactic)
    /\ \E k \in 1..Len(notebookArg.hunt.title) : notebookArg.hunt.title[k] = Quote
    /\ notebookArg.script = "part_004"

\* the lines of the record's copy of the template, for the prefixes and suffixes
TemplateOf(arg) ==
    IF arg.script = "part_004"
    THEN templateLines004(notebookHuntData(arg.hunt), <<>>)
    ELSE templateLines003(notebookHuntData(arg.hunt), <<>>)

\* C22 (as claimed): whichever optional fields are absent, every line of the
\* template is in the notebook, and none carries an empty value or the text
\* 'undefined' where it reads a field.
C22_AbsentFieldsGetPlaceholder ==
    notebookCall.done =>
        /\ Len(notebookCall.value) = Len(TemplateOf(notebookArg))
        /\ \A k \in 1..Len(notebookCall.value) :
               /\ notebookCall.value[k].cell = TemplateOf(notebookArg)[k].cell
               /\ StartsWith(ParsedLine(notebookCall.value[k].text), TemplateOf(notebookArg)[k].prefix)
               /\ ReadBack(ParsedLine(notebookCall.value[k].text), TemplateOf(notebookArg)[k].prefix,
                           TemplateOf(notebookArg)[k].suffix) \notin {<<>>, Chars("undefined")}

(***************************************************************************)
(* Claims about the examples of the help texts (checked under SpecExamples)*)
(***************************************************************************)
\* C23 (as claimed): a message that is one of the examples the help text or
\* the welcome message lists under a capability is given to the handler of
\* that capability.
C23_ExamplesReachTheirHandler ==
    \A i \in 1..Len(handled) :
        /\ \A k \in 1..Len(helpExamples) :
               helpExamples[k].text = handled[i].message =>
                   handled[i].handler = helpExamples[k].capability
        /\ \A k \in 1..Len(welcomeExamples) :
               welcomeExamples[k].text = handled[i].message =>
                   handled[i].handler = welcomeExamples[k].capability

(***************************************************************************)
(* Claims about messages in flight (checked under SpecTurns)               *)
(***************************************************************************)
TypingIndicators == {k \in 1..Len(messagesContainer) : messagesContainer[k].kind = "typing"}

\* C24 (as claimed): the typing indicator is shown exactly while a sent
\* message waits for processMessage, and there is never more than one.
C24_IndicatorWhilePending ==
    /\ Cardinality(TypingIndicators) <= 1
    /\ (timers # <<>>) <=> (TypingIndicators # {} /\ currentTypingIndicator # 0)

\* the texts of the user messages, in the order they were sent
SentTexts == [n \in 1..Cardinality(UserMessages) |->
                 messages[CHOOSE i \in UserMessages :
                              Cardinality({j \in UserMessages : j <= i}) = n].content.args[1]]

\* how often text is among the elements of seq
Occurrences(seq, text) == Cardinality({k \in 1..Len(seq) : seq[k] = text})

\* C25: every message sent with a text other than blanks is given to
\* processMessage, once and not more, whether the chat is closed meanwhile
\* or more messages follow; an input of blanks sends nothing and sets no timer.
C25_EverySentMessageProcessedOnce ==
    /\ [](\A text \in PendingUtterances :
             /\ Occurrences(SentTexts, text)
                    = Occurrences(timers, text) + Occurrences([k \in 1..Len(handled) |-> handled[k].message], text)
             /\ trim(text) = <<>> => Occurrences(SentTexts, text) = 0 /\ Occurrences(timers, text) = 0)
    /\ \A n \in 1..MaxTurns : (Cardinality(UserMessages) >= n) ~> (Len(handled) >= n)

\* a message was processed and another one waits while the chat is closed
C25_Witness ==
    /\ ~isOpen
    /\ timers # <<>>
    /\ handled # <<>>

\* C26 (as claimed): the messages are processed, and so answered, in the
\* order they were sent.
C26_ResponsesInSendingOrder ==
    \A i \in 1..Len(handled) : handled[i].message = SentTexts[i]

(***************************************************************************)
(* Claim about the rendered grid (checked under SpecCatalog)               *)
(***************************************************************************)
\* what filterAndSortHunts renders for the values the controls hold now
RenderedNow(r) ==
    /\ huntsGrid = r.huntsGrid
    /\ huntCount = r.huntCount
    /\ huntCount = Len(huntsGrid)

\* C27: whatever events came before, when no debounce timer waits the grid
\* and the count of the label are those filterAndSortHunts gives for the
\* values the search box, the three filters and the sort select hold.
C27_GridFollowsControls ==
    ViewIsCurrent =>
        RenderedNow(filterAndSortHunts(HUNTS_DATA, searchInput, categoryFilter, tacticFilter,
                                       tagFilter, sortHuntsSelect))

\* the category and the sort order were changed, no search is typed: the
\* grid shows the two Flames records of the snapshot, the higher id first
C27_Witness ==
    /\ ViewIsCurrent
    /\ searchInput = <<>>
    /\ sortHuntsSelect = "id-desc"
    /\ categoryFilter = "Flames"
    /\ HUNTS_DATA = <<H009, H010>>
    /\ huntsGrid = <<H010, H009>>
    /\ huntCount = 2

(***************************************************************************)
(* Claim about a clicked hunt result (checked under SpecClick)             *)
(***************************************************************************)
\* the hunt is one of the cards of the grid
InGrid(hunt, grid) == \E i \in 1..Len(grid) : grid[i] = hunt

\* C28: once a hunt result of the chat was clicked, its listener has left the
\* chat closed and the grid of the catalog showing the clicked hunt, whatever
\* the search box and the selects held before the click
C28_ClickedHuntDisplayed ==
    lastClick.done =>
        /\ ~lastClick.isOpen
        /\ InGrid(lastClick.hunt, lastClick.huntsGrid)

(***************************************************************************)
(* Claim about the fallback handler (checked under SpecChat)               *)
(***************************************************************************)
\* punctuation marks
Punctuation == {".", ",", "?", "!", ";", ":", "'", "\"", "-", "(", ")"}
\* the message in lower case with its punctuation marks taken out
Unpunctuated(message) == SelectSeq(Lower(message), LAMBDA c : c \notin Punctuation)
\* s[i..j] is a token of s: a longest run of characters without a blank
IsToken(s, i, j) ==
    /\ i <= j
    /\ \A k \in i..j : s[k] # " "
    /\ i = 1 \/ s[i - 1] = " "
    /\ j = Len(s) \/ s[j + 1] = " "
TokensOf(s) ==
    {SubSeq(s, p[1], p[2]) : p \in {q \in (1..Len(s)) \X (1..Len(s)) : IsToken(s, q[1], q[2])}}
\* the tokens longer than 2 characters that are no stopword
KeywordsOf(message) ==
    {w \in TokensOf(Unpunctuated(message)) : Len(w) > 2 /\ w \notin Range(commonWords)}
\* title, tactic or a tag of r contains w, case ignored
FieldHas(r, w) ==
    \/ r.title # undefined /\ Contains(Lower(r.title), w)
    \/ r.tactic # undefined /\ Contains(Lower(r.tactic), w)
    \/ r.tags # undefinedList /\ \E t \in 1..Len(r.tags) : Contains(Lower(r.tags[t]), w)
HasKeyword(r, message) == \E w \in KeywordsOf(message) : FieldHas(r, w)
\* the response is one message: the apology with one of the four suggestions
SuggestionReply ==
    \E i \in 1..Len(suggestions) :
        Response = <<MessageElement("bot",
                        Content("I'm not sure how to help with that. ${randomSuggestion}",
                                <<Chars(suggestions[i])>>))>>

\* C29 (as claimed): the fallback handler completes; its keywords are the
\* tokens of the lowercased message without punctuation that are longer than
\* 2 characters and no stopword; it displays at most 3 records of the
\* snapshot, each with a keyword in its title, tactic or a tag, at least one
\* when such a record exists; and it answers with one of the four
\* suggestions exactly when no record has any keyword.
C29_FallbackKeywordsAndReply ==
    (Len(handled) = 1 /\ handled[1].handler = "handleGeneralQuery") =>
        /\ ~handled[1].threw
        /\ Range(extractKeywords(handled[1].message)) = KeywordsOf(handled[1].message)
        /\ Len(Displayed) <= 3
        /\ \A k \in 1..Len(Displayed) :
               /\ Displayed[k] \in Range(HUNTS_DATA)
               /\ HasKeyword(Displayed[k], handled[1].message)
        /\ (\E r \in Range(HUNTS_DATA) : HasKeyword(r, handled[1].message)) => Displayed # <<>>
        /\ SuggestionReply <=> ~\E r \in Range(HUNTS_DATA) : HasKeyword(r, handled[1].message)

(***************************************************************************)
(* Claim about the minimize button (checked under SpecResize)              *)
(***************************************************************************)
\* the widget shows its header only, and its button offers to restore it
Minimized ==
    /\ resizable.style.height = Chars("60px")
    /\ resizable.messagesDisplay = "none"
    /\ resizable.inputDisplay = "none"
    /\ resizable.minimizeBtn.title = "Restore"
\* the widget shows messages and input, and its button offers to minimize it
Restored ==
    /\ resizable.style.height # Chars("60px")
    /\ resizable.messagesDisplay # "none"
    /\ resizable.inputDisplay # "none"
    /\ resizable.minimizeBtn.title = "Minimize"
\* the widget was opened and then only its minimize button was clicked
OnlyMinimizeClicks ==
    /\ widgetEvents # <<>>
    /\ widgetEvents[1] = "toggle"
    /\ \A i \in 2..Len(widgetEvents) : widgetEvents[i] = "minimize"

\* C30: after n clicks on the minimize button of the opened, restored
\* widget, and no other click, the widget is minimized when n is odd and
\* restored when n is even.
C30_MinimizedIffOddClicks ==
    OnlyMinimizeClicks =>
        IF (Len(widgetEvents) - 1) % 2 = 1 THEN Minimized ELSE Restored

=============================================================================
